---- MODULE Spec2Model ----
(***************************************************************************)
(* Model of scripts/convert_opening_book.py: the OpeningBookConverter that *)
(* turns the JSON opening catalog into ConvertedPosition/ConvertedMove     *)
(* records.  Strings that the code indexes or searches (square tokens,     *)
(* piece-type hints, move notations) are sequences of one-character        *)
(* strings; strings that are only compared (opening names, position        *)
(* identifiers, category and piece names) are TLA+ strings.                *)
(*                                                                         *)
(* SpecFn     applies the converter's pure methods to one JsonMove.        *)
(* Spec       runs convert_json_file over the openings of an input file.   *)
(* SpecRender applies generate_rust_code and generate_migration_report to  *)
(*            a catalog.                                                   *)
(* SpecGen    runs the catalog export of scripts/generate_opening_book.py. *)
(* SpecMain   runs the converter's command-line driver, main.              *)
(***************************************************************************)
EXTENDS Integers, Sequences, FiniteSets, TLC

VARIABLES
    self,           \* the converter object: its three lookup tables
    returned,       \* SpecPure: the catalogs convert_opening has returned so far
    move,           \* SpecFn: the JsonMove under conversion
    opening_name,   \* SpecFn: the name of the opening it is drawn from
    ret,            \* SpecFn: the last method call and what it returned
    data,           \* Spec: the opening records of the input file read so far
    all_positions,  \* Spec: convert_json_file's accumulator
    pc,             \* Spec: where convert_json_file is; SpecMain: where main is
    catalog,        \* SpecRender: the positions rendered; SpecMain: main's positions
    analyses,       \* SpecGen: the position analyses given to the generator
    args,           \* SpecMain: the parsed command line
    fs,             \* SpecMain: the input file, the output directory, the artifacts
    exit_status     \* SpecMain: the status the process ended with

vars == <<self, returned, move, opening_name, ret, data, all_positions, pc, catalog, analyses, args, fs, exit_status>>

\* what the method-level and file-level specifications leave alone
driverVars == <<catalog, analyses, args, fs, exit_status>>

-----------------------------------------------------------------------------
(* Python values *)

drop == <<"d", "r", "o", "p">>

DigitChars == {"0", "1", "2", "3", "4", "5", "6", "7", "8", "9"}

\* int(c) of a one-character string c: defined on the decimal digits only
IntOf(c) ==
    CASE c = "0" -> 0 [] c = "1" -> 1 [] c = "2" -> 2 [] c = "3" -> 3
      [] c = "4" -> 4 [] c = "5" -> 5 [] c = "6" -> 6 [] c = "7" -> 7
      [] c = "8" -> 8 [] c = "9" -> 9

\* chr(ord("a") + d - 1) for d in 0..9; chr(96), the grave accent that
\* precedes "a", is written "0x60"
LetterOf(d) == <<"0x60", "a", "b", "c", "d", "e", "f", "g", "h", "i">>[d + 1]

\* the substring test  sub in s
Contains(sub, s) ==
    \E i \in 1..(Len(s) - Len(sub) + 1) : SubSeq(s, i, i + Len(sub) - 1) = sub

\* d.get(k, default)
DictGet(d, k, default) == IF k \in DOMAIN d THEN d[k] ELSE default

Returned(v) == [ok |-> TRUE, value |-> v]
Raised(e, m) == [ok |-> FALSE, error |-> e, msg |-> m]

-----------------------------------------------------------------------------
(* OpeningBookConverter.__init__ : the lookup tables *)

opening_weights ==
    [n \in {"Aggressive Rook", "Yagura", "Kakugawari (Bishop Exchange)",
            "Shikenbisya (Fourth File Rook)", "Aigakari (Double Wing Attack)",
            "Side Pawn Picker (Yokofudori)"} |->
        CASE n = "Aggressive Rook" -> 850
          [] n = "Yagura" -> 800
          [] n = "Kakugawari (Bishop Exchange)" -> 750
          [] n = "Shikenbisya (Fourth File Rook)" -> 700
          [] n = "Aigakari (Double Wing Attack)" -> 650
          [] n = "Side Pawn Picker (Yokofudori)" -> 600]

evaluation_scores ==
    [t \in {"development", "central_control", "king_safety", "tactical",
            "positional", "neutral"} |->
        CASE t = "development" -> 15
          [] t = "central_control" -> 20
          [] t = "king_safety" -> 25
          [] t = "tactical" -> 30
          [] t = "positional" -> 10
          [] t = "neutral" -> 0]

piece_type_mapping ==
    [k \in {"P", "L", "N", "S", "G", "B", "R", "K", "+P", "+L", "+N", "+S",
            "+B", "+R"} |->
        CASE k = "P" -> "Pawn" [] k = "L" -> "Lance" [] k = "N" -> "Knight"
          [] k = "S" -> "Silver" [] k = "G" -> "Gold" [] k = "B" -> "Bishop"
          [] k = "R" -> "Rook" [] k = "K" -> "King"
          [] k = "+P" -> "PromotedPawn" [] k = "+L" -> "PromotedLance"
          [] k = "+N" -> "PromotedKnight" [] k = "+S" -> "PromotedSilver"
          [] k = "+B" -> "PromotedBishop" [] k = "+R" -> "PromotedRook"]

\* the object __init__ leaves: the methods read the tables through self
OpeningBookConverter ==
    [piece_type_mapping |-> piece_type_mapping,
     opening_weights |-> opening_weights,
     evaluation_scores |-> evaluation_scores]

-----------------------------------------------------------------------------
(* OpeningBookConverter methods *)

convert_coordinate_swapped(coord) ==
    IF Len(coord) # 2 THEN Raised("ValueError", "Invalid coordinate format")
    ELSE IF coord[1] \notin DigitChars \/ coord[2] \notin DigitChars
    THEN Raised("ValueError", "invalid literal for int()")
    ELSE LET col == IntOf(coord[1]) - 1
             row == IntOf(coord[2]) - 1
         IN  IF ~(0 <= row /\ row <= 8) \/ ~(0 <= col /\ col <= 8)
             THEN Raised("ValueError", "Coordinate out of bounds")
             ELSE Returned(<<col, row>>)

convert_coordinate(coord) ==
    IF Len(coord) # 2 THEN Raised("ValueError", "Invalid coordinate format")
    ELSE IF coord[1] \notin DigitChars
    THEN Raised("ValueError", "invalid literal for int()")
    ELSE IF coord[2] \notin DigitChars
    THEN Raised("ValueError", "invalid literal for int()")
    ELSE LET col == IntOf(coord[1]) - 1
             row == IntOf(coord[2]) - 1
         IN  IF ~(0 <= row /\ row <= 8) \/ ~(0 <= col /\ col <= 8)
             THEN Raised("ValueError", "Coordinate out of bounds")
             ELSE Returned(<<row, col>>)

determine_piece_type_drop_pawn(m, fen, name) ==
    IF m.from_pos = drop THEN "Pawn"
    ELSE IF name = "Aggressive Rook"
    THEN IF Contains(<<"2", "7">>, m.from_pos) \/ Contains(<<"2", "6">>, m.from_pos)
            \/ Contains(<<"2", "5">>, m.from_pos)
         THEN "Rook" ELSE "Pawn"
    ELSE IF name = "Yagura"
    THEN IF Contains(<<"7", "7">>, m.from_pos) \/ Contains(<<"7", "6">>, m.from_pos)
         THEN "Pawn"
         ELSE IF Contains(<<"6", "9">>, m.from_pos) \/ Contains(<<"7", "8">>, m.to_pos)
         THEN "Gold" ELSE "Pawn"
    ELSE IF name = "Kakugawari (Bishop Exchange)"
    THEN IF Contains(<<"2", "2">>, m.from_pos) \/ Contains(<<"8", "8">>, m.to_pos)
         THEN "Bishop" ELSE "Pawn"
    ELSE "Pawn"

\* a resolution that trusts the hint of the input record when it names a gold
determine_piece_type_hinted(m, fen, name) ==
    IF m.piece_type = <<"G">> THEN "Gold"
    ELSE IF name = "Aggressive Rook"
    THEN IF Contains(<<"2", "7">>, m.from_pos) \/ Contains(<<"2", "6">>, m.from_pos)
            \/ Contains(<<"2", "5">>, m.from_pos)
         THEN "Rook" ELSE "Pawn"
    ELSE IF name = "Yagura"
    THEN IF Contains(<<"7", "7">>, m.from_pos) \/ Contains(<<"7", "6">>, m.from_pos)
         THEN "Pawn"
         ELSE IF Contains(<<"6", "9">>, m.from_pos) \/ Contains(<<"7", "8">>, m.to_pos)
         THEN "Gold" ELSE "Pawn"
    ELSE IF name = "Kakugawari (Bishop Exchange)"
    THEN IF Contains(<<"2", "2">>, m.from_pos) \/ Contains(<<"8", "8">>, m.to_pos)
         THEN "Bishop" ELSE "Pawn"
    ELSE "Pawn"

determine_piece_type(m, fen, name) ==
    IF name = "Aggressive Rook"
    THEN IF Contains(<<"2", "7">>, m.from_pos) \/ Contains(<<"2", "6">>, m.from_pos)
            \/ Contains(<<"2", "5">>, m.from_pos)
         THEN "Rook" ELSE "Pawn"
    ELSE IF name = "Yagura"
    THEN IF Contains(<<"7", "7">>, m.from_pos) \/ Contains(<<"7", "6">>, m.from_pos)
         THEN "Pawn"
         ELSE IF Contains(<<"6", "9">>, m.from_pos) \/ Contains(<<"7", "8">>, m.to_pos)
         THEN "Gold" ELSE "Pawn"
    ELSE IF name = "Kakugawari (Bishop Exchange)"
    THEN IF Contains(<<"2", "2">>, m.from_pos) \/ Contains(<<"8", "8">>, m.to_pos)
         THEN "Bishop" ELSE "Pawn"
    ELSE "Pawn"

central_squares == {<<"4", "4">>, <<"4", "5">>, <<"5", "4">>, <<"5", "5">>}

king_safety_moves == {<<"7", "7">>, <<"7", "8">>, <<"8", "7">>, <<"8", "8">>}

determine_move_type_development_first(m, name) ==
    IF m.from_pos = drop THEN "tactical"
    ELSE IF m.promote THEN "tactical"
    ELSE IF m.to_pos \in central_squares THEN "central_control"
    ELSE IF name \in {"Yagura", "Aggressive Rook"} THEN "development"
    ELSE IF m.to_pos \in king_safety_moves THEN "king_safety"
    ELSE "positional"

\* a classification that falls through to the unused "neutral" entry
determine_move_type_neutral(m, name) ==
    IF m.from_pos = drop THEN "tactical"
    ELSE IF m.promote THEN "tactical"
    ELSE IF m.to_pos \in central_squares THEN "central_control"
    ELSE IF m.to_pos \in king_safety_moves THEN "king_safety"
    ELSE IF name \in {"Yagura", "Aggressive Rook"} THEN "development"
    ELSE "neutral"

determine_move_type(m, name) ==
    IF m.from_pos = drop THEN "tactical"
    ELSE IF m.promote THEN "tactical"
    ELSE IF m.to_pos \in central_squares THEN "central_control"
    ELSE IF m.to_pos \in king_safety_moves THEN "king_safety"
    ELSE IF name \in {"Yagura", "Aggressive Rook"} THEN "development"
    ELSE "positional"

\* both bonuses added for a promoting drop (if / if instead of if / elif)
assign_weight_both_bonuses(m, name) ==
    LET base == DictGet(self.opening_weights, name, 500)
        w1 == IF m.promote THEN base + 100 ELSE base
        w2 == IF m.from_pos = drop THEN w1 + 50 ELSE w1
        w3 == IF name = "Aggressive Rook"
              THEN IF m.from_pos \in {<<"2", "7">>, <<"2", "6">>, <<"2", "5">>}
                   THEN w2 + 50 ELSE w2
              ELSE IF name = "Yagura"
              THEN IF m.from_pos \in {<<"7", "7">>, <<"6", "9">>}
                   THEN w2 + 50 ELSE w2
              ELSE w2
    IN  IF w3 < 1000 THEN w3 ELSE 1000

\* the cap dropped and the square bonus written as 100
assign_weight_uncapped(m, name) ==
    LET base == DictGet(self.opening_weights, name, 500)
        w1 == IF m.promote THEN base + 100
              ELSE IF m.from_pos = drop THEN base + 50 ELSE base
    IN  IF name = "Aggressive Rook"
        THEN IF m.from_pos \in {<<"2", "7">>, <<"2", "6">>, <<"2", "5">>}
             THEN w1 + 100 ELSE w1
        ELSE IF name = "Yagura"
        THEN IF m.from_pos \in {<<"7", "7">>, <<"6", "9">>}
             THEN w1 + 100 ELSE w1
        ELSE w1

\* the promotion bonus written as 10
assign_weight_small_promotion(m, name) ==
    LET base == DictGet(self.opening_weights, name, 500)
        w1 == IF m.promote THEN base + 10
              ELSE IF m.from_pos = drop THEN base + 50 ELSE base
        w2 == IF name = "Aggressive Rook"
              THEN IF m.from_pos \in {<<"2", "7">>, <<"2", "6">>, <<"2", "5">>}
                   THEN w1 + 50 ELSE w1
              ELSE IF name = "Yagura"
              THEN IF m.from_pos \in {<<"7", "7">>, <<"6", "9">>}
                   THEN w1 + 50 ELSE w1
              ELSE w1
    IN  IF w2 < 1000 THEN w2 ELSE 1000

\* a base weight of 400 for an opening the table does not list
assign_weight_low_default(m, name) ==
    LET base == DictGet(self.opening_weights, name, 400)
        w1 == IF m.promote THEN base + 100
              ELSE IF m.from_pos = drop THEN base + 50 ELSE base
        w2 == IF name = "Aggressive Rook"
              THEN IF m.from_pos \in {<<"2", "7">>, <<"2", "6">>, <<"2", "5">>}
                   THEN w1 + 50 ELSE w1
              ELSE IF name = "Yagura"
              THEN IF m.from_pos \in {<<"7", "7">>, <<"6", "9">>}
                   THEN w1 + 50 ELSE w1
              ELSE w1
    IN  IF w2 < 1000 THEN w2 ELSE 1000

assign_weight(m, name) ==
    LET base == DictGet(self.opening_weights, name, 500)
        w1 == IF m.promote THEN base + 100
              ELSE IF m.from_pos = drop THEN base + 50 ELSE base
        w2 == IF name = "Aggressive Rook"
              THEN IF m.from_pos \in {<<"2", "7">>, <<"2", "6">>, <<"2", "5">>}
                   THEN w1 + 50 ELSE w1
              ELSE IF name = "Yagura"
              THEN IF m.from_pos \in {<<"7", "7">>, <<"6", "9">>}
                   THEN w1 + 50 ELSE w1
              ELSE w1
    IN  IF w2 < 1000 THEN w2 ELSE 1000

\* the promotion bonus forgotten
assign_evaluation_no_promotion(m, name) ==
    LET base_eval == DictGet(self.evaluation_scores, determine_move_type(m, name), 0)
    IN  IF name \in {"Aggressive Rook", "Yagura"} THEN base_eval + 5
        ELSE IF name \in {"Kakugawari (Bishop Exchange)"} THEN base_eval + 10
        ELSE base_eval

assign_evaluation(m, name) ==
    LET base_eval == DictGet(self.evaluation_scores, determine_move_type(m, name), 0)
        e1 == IF name \in {"Aggressive Rook", "Yagura"} THEN base_eval + 5
              ELSE IF name \in {"Kakugawari (Bishop Exchange)"} THEN base_eval + 10
              ELSE base_eval
    IN  IF m.promote THEN e1 + 15 ELSE e1

\* the digit int(pos[0]) followed by the letter chr(ord("a") + int(pos[1]) - 1),
\* evaluated left to right
usi_coord(pos) ==
    IF Len(pos) < 1 THEN Raised("IndexError", "string index out of range")
    ELSE IF pos[1] \notin DigitChars
    THEN Raised("ValueError", "invalid literal for int()")
    ELSE IF Len(pos) < 2 THEN Raised("IndexError", "string index out of range")
    ELSE IF pos[2] \notin DigitChars
    THEN Raised("ValueError", "invalid literal for int()")
    ELSE Returned(<<pos[1], LetterOf(IntOf(pos[2]))>>)

\* a notation that marks the promotion of a drop as well
generate_move_notation_drop_promotes(m, name) ==
    IF m.from_pos = drop
    THEN LET piece == IF Len(m.piece_type) > 0 THEN m.piece_type[1] ELSE "P"
             to_coord == usi_coord(m.to_pos)
         IN  IF ~to_coord.ok THEN to_coord
             ELSE Returned(<<piece, "*">> \o to_coord.value
                           \o (IF m.promote THEN <<"+">> ELSE <<>>))
    ELSE LET from_coord == usi_coord(m.from_pos)
             to_coord == usi_coord(m.to_pos)
         IN  IF ~from_coord.ok THEN from_coord
             ELSE IF ~to_coord.ok THEN to_coord
             ELSE Returned(from_coord.value \o to_coord.value
                           \o (IF m.promote THEN <<"+">> ELSE <<>>))

generate_move_notation(m, name) ==
    IF m.from_pos = drop
    THEN LET piece == IF Len(m.piece_type) > 0 THEN m.piece_type[1] ELSE "P"
             to_coord == usi_coord(m.to_pos)
         IN  IF ~to_coord.ok THEN to_coord
             ELSE Returned(<<piece, "*">> \o to_coord.value)
    ELSE LET from_coord == usi_coord(m.from_pos)
             to_coord == usi_coord(m.to_pos)
         IN  IF ~from_coord.ok THEN from_coord
             ELSE IF ~to_coord.ok THEN to_coord
             ELSE Returned(from_coord.value \o to_coord.value
                           \o (IF m.promote THEN <<"+">> ELSE <<>>))

ConvertedMove(from_row, from_col, to_row, to_col, piece_type, is_drop, is_promotion, weight, evaluation, name, move_notation) ==
    [from_row |-> from_row, from_col |-> from_col,
     to_row |-> to_row, to_col |-> to_col,
     piece_type |-> piece_type, is_drop |-> is_drop,
     is_promotion |-> is_promotion, weight |-> weight,
     evaluation |-> evaluation, opening_name |-> name,
     move_notation |-> move_notation]

convert_move(m, fen, name) ==
    IF m.from_pos = drop
    THEN LET to == convert_coordinate(m.to_pos)
             notation == generate_move_notation(m, name)
         IN  IF ~to.ok THEN to
             ELSE IF ~notation.ok THEN notation
             ELSE Returned(ConvertedMove(
                      0, 0, to.value[1], to.value[2],
                      determine_piece_type(m, fen, name), TRUE, m.promote,
                      assign_weight(m, name), assign_evaluation(m, name),
                      name, notation.value))
    ELSE LET from == convert_coordinate(m.from_pos)
             to == convert_coordinate(m.to_pos)
             notation == generate_move_notation(m, name)
         IN  IF ~from.ok THEN from
             ELSE IF ~to.ok THEN to
             ELSE IF ~notation.ok THEN notation
             ELSE Returned(ConvertedMove(
                      from.value[1], from.value[2], to.value[1], to.value[2],
                      determine_piece_type(m, fen, name), FALSE, m.promote,
                      assign_weight(m, name), assign_evaluation(m, name),
                      name, notation.value))

-----------------------------------------------------------------------------
(* Inputs of the method-level specification *)

\* every opening of the weight table, and one the tables do not know
OpeningNames ==
    {"Aggressive Rook", "Yagura", "Kakugawari (Bishop Exchange)",
     "Shikenbisya (Fourth File Rook)", "Aigakari (Double Wing Attack)",
     "Side Pawn Picker (Yokofudori)", "Test Opening"}

\* the squares the heuristics name, the two corners of the board, and a
\* square of the third row
SquareTokens ==
    {<<"2", "7">>, <<"2", "6">>, <<"2", "5">>, <<"7", "7">>, <<"7", "6">>,
     <<"6", "9">>, <<"7", "8">>, <<"2", "2">>, <<"8", "8">>, <<"4", "4">>,
     <<"4", "5">>, <<"5", "4">>, <<"5", "5">>, <<"8", "7">>, <<"1", "1">>,
     <<"9", "9">>, <<"8", "3">>}

\* tokens that are no square: empty, too short, too long, a zero digit, a
\* letter, and the letter-suffixed form of square 77
BadTokens ==
    {<<>>, <<"2">>, <<"2", "7", "7">>, <<"2", "0">>, <<"0", "7">>,
     <<"2", "a">>, <<"a", "2">>, <<"7", "g">>}

Tokens == SquareTokens \cup BadTokens \cup {drop}

PieceHints == {<<>>, <<"G">>}

JsonMove(from_pos, to_pos, promote, piece_type) ==
    [from_pos |-> from_pos, to_pos |-> to_pos, promote |-> promote,
     piece_type |-> piece_type]

JsonMoves ==
    {JsonMove(f, t, p, h) : f \in Tokens, t \in Tokens, p \in BOOLEAN, h \in PieceHints}

NoCall == [fn |-> "none"]

NoMove == JsonMove(<<>>, <<>>, FALSE, <<>>)

\* the driver has not parsed a command line and has touched no file
NoArgs == [report |-> FALSE, rust_code |-> FALSE]

\* a file that does not exist, and a file holding a text
NoFile == [exists |-> FALSE, text |-> <<>>]
File(text) == [exists |-> TRUE, text |-> text]

NoFiles ==
    [input_file |-> "missing", output_dir |-> "absent",
     report_file |-> NoFile, rust_file |-> NoFile]

\* the exit status of a process that has not ended; an ended one has 0..255
Running == -1

Fens == {"A", "B"}

-----------------------------------------------------------------------------
(* SpecFn: one JsonMove, the methods applied to it *)

InitFn ==
    /\ self = OpeningBookConverter
    /\ returned = <<>>
    /\ move \in JsonMoves
    /\ opening_name \in OpeningNames
    /\ ret = NoCall
    /\ data = <<>>
    /\ all_positions = <<>>
    /\ pc = "idle"
    /\ catalog = <<>>
    /\ analyses = <<>>
    /\ args = NoArgs
    /\ fs = NoFiles
    /\ exit_status = Running

CallConvertCoordinate ==
    /\ ret = NoCall
    /\ \E coord \in {move.from_pos, move.to_pos} :
           ret' = [fn |-> "convert_coordinate", arg |-> coord,
                   out |-> convert_coordinate(coord)]
    /\ UNCHANGED <<self, returned, move, opening_name, data, all_positions, pc>>
    /\ UNCHANGED driverVars

CallDeterminePieceType ==
    /\ ret = NoCall
    /\ \E fen \in Fens :
           ret' = [fn |-> "determine_piece_type",
                   out |-> determine_piece_type(move, fen, opening_name)]
    /\ UNCHANGED <<self, returned, move, opening_name, data, all_positions, pc>>
    /\ UNCHANGED driverVars

CallDetermineMoveType ==
    /\ ret = NoCall
    /\ ret' = [fn |-> "determine_move_type",
               out |-> determine_move_type(move, opening_name)]
    /\ UNCHANGED <<self, returned, move, opening_name, data, all_positions, pc>>
    /\ UNCHANGED driverVars

CallAssignWeight ==
    /\ ret = NoCall
    /\ ret' = [fn |-> "assign_weight", out |-> assign_weight(move, opening_name)]
    /\ UNCHANGED <<self, returned, move, opening_name, data, all_positions, pc>>
    /\ UNCHANGED driverVars

CallAssignEvaluation ==
    /\ ret = NoCall
    /\ ret' = [fn |-> "assign_evaluation",
               out |-> assign_evaluation(move, opening_name)]
    /\ UNCHANGED <<self, returned, move, opening_name, data, all_positions, pc>>
    /\ UNCHANGED driverVars

CallGenerateMoveNotation ==
    /\ ret = NoCall
    /\ ret' = [fn |-> "generate_move_notation",
               out |-> generate_move_notation(move, opening_name)]
    /\ UNCHANGED <<self, returned, move, opening_name, data, all_positions, pc>>
    /\ UNCHANGED driverVars

CallConvertMove ==
    /\ ret = NoCall
    /\ \E fen \in Fens :
           ret' = [fn |-> "convert_move",
                   out |-> convert_move(move, fen, opening_name)]
    /\ UNCHANGED <<self, returned, move, opening_name, data, all_positions, pc>>
    /\ UNCHANGED driverVars

NextFn ==
    \/ CallConvertCoordinate
    \/ CallDeterminePieceType
    \/ CallDetermineMoveType
    \/ CallAssignWeight
    \/ CallAssignEvaluation
    \/ CallGenerateMoveNotation
    \/ CallConvertMove

SpecFn == InitFn /\ [][NextFn]_vars

-----------------------------------------------------------------------------
(* convert_opening *)

JsonOpening(name, moves) == [name |-> name, moves |-> moves]

ConvertedPosition(fen, moves) == [fen |-> fen, moves |-> moves]

\* the JsonMove that the loop body builds from one move object of the file
ParseMove(move_data) ==
    JsonMove(DictGet(move_data, "from", <<>>), DictGet(move_data, "to", <<>>),
             DictGet(move_data, "promote", FALSE),
             DictGet(move_data, "pieceType", <<>>))

\* the inner loop: converted_moves after the moves from index i on
RECURSIVE convert_moves(_, _, _, _, _)
convert_moves(moves, i, fen, name, converted_moves) ==
    IF i > Len(moves) THEN Returned(converted_moves)
    ELSE LET converted_move == convert_move(ParseMove(moves[i]), fen, name)
         IN  IF ~converted_move.ok THEN converted_move
             ELSE convert_moves(moves, i + 1, fen, name,
                                Append(converted_moves, converted_move.value))

\* the inner loop of a converter that skips a move it has already converted
RECURSIVE convert_moves_dedup(_, _, _, _, _)
convert_moves_dedup(moves, i, fen, name, converted_moves) ==
    IF i > Len(moves) THEN Returned(converted_moves)
    ELSE LET converted_move == convert_move(ParseMove(moves[i]), fen, name)
         IN  IF ~converted_move.ok THEN converted_move
             ELSE IF \E j \in DOMAIN converted_moves :
                         converted_moves[j] = converted_move.value
             THEN convert_moves_dedup(moves, i + 1, fen, name, converted_moves)
             ELSE convert_moves_dedup(moves, i + 1, fen, name,
                                      Append(converted_moves, converted_move.value))

\* the outer loop over opening.moves.items(): positions after the items from k on
RECURSIVE convert_items(_, _, _)
convert_items(opening, k, positions) ==
    IF k > Len(opening.moves) THEN Returned(positions)
    ELSE LET item == opening.moves[k]
             converted_moves == convert_moves(item.moves, 1, item.fen, opening.name, <<>>)
         IN  IF ~converted_moves.ok THEN converted_moves
             ELSE convert_items(opening, k + 1,
                     Append(positions, ConvertedPosition(item.fen, converted_moves.value)))

RECURSIVE convert_items_dedup(_, _, _)
convert_items_dedup(opening, k, positions) ==
    IF k > Len(opening.moves) THEN Returned(positions)
    ELSE LET item == opening.moves[k]
             converted_moves ==
                 convert_moves_dedup(item.moves, 1, item.fen, opening.name, <<>>)
         IN  IF ~converted_moves.ok THEN converted_moves
             ELSE convert_items_dedup(opening, k + 1,
                     Append(positions, ConvertedPosition(item.fen, converted_moves.value)))

convert_opening_dedup(opening) == convert_items_dedup(opening, 1, <<>>)

convert_opening(opening) == convert_items(opening, 1, <<>>)

-----------------------------------------------------------------------------
(* Inputs of the file-level specification *)

\* openings + positions + moves of an input file
MaxInputSize == 8

PipeNames == {"Yagura", "Test Opening"}

\* move objects of the file: a plain move, a drop with a piece hint, and a
\* record that lacks its "to" field
GoodMoveData ==
    {[from |-> <<"7", "7">>, to |-> <<"7", "6">>],
     [from |-> drop, to |-> <<"5", "5">>, pieceType |-> <<"G">>]}

MoveData == GoodMoveData \cup {[from |-> <<"2", "7">>]}

Item(fen, moves) == [fen |-> fen, moves |-> moves]

\* the size of one opening record: itself, its positions, their moves
RECURSIVE ItemsSize(_)
ItemsSize(items) ==
    IF items = <<>> THEN 0
    ELSE 1 + Len(Head(items).moves) + ItemsSize(Tail(items))

RECURSIVE DataSize(_)
DataSize(d) ==
    IF d = <<>> THEN 0 ELSE 1 + ItemsSize(Head(d).moves) + DataSize(Tail(d))

MoveLists(n) == UNION {[1..k -> MoveData] : k \in 0..n}

\* the "moves" objects (position identifier -> move list, keys distinct, in
\* file order) of size at most n
MovesObjects(n) ==
    (IF n >= 0 THEN {<<>>} ELSE {})
    \cup {<<Item(f, l)>> : f \in Fens, l \in MoveLists(n - 1)}
    \cup UNION {UNION {UNION {{<<Item(f1, l1), Item(f2, l2)>> :
                                   l2 \in MoveLists(n - 2 - Len(l1))} :
                               l1 \in MoveLists(n - 2)} :
                           f2 \in Fens \ {f1}} :
                    f1 \in Fens}

OpeningData(n) ==
    {[name |-> nm, moves |-> mo] : nm \in PipeNames, mo \in MovesObjects(n)}

-----------------------------------------------------------------------------
(* Spec: convert_json_file, one opening record of the file per step *)

Init ==
    /\ self = OpeningBookConverter
    /\ returned = <<>>
    /\ move = NoMove
    /\ opening_name = ""
    /\ ret = NoCall
    /\ data = <<>>
    /\ all_positions = <<>>
    /\ pc = "loop"
    /\ catalog = <<>>
    /\ analyses = <<>>
    /\ args = NoArgs
    /\ fs = NoFiles
    /\ exit_status = Running

\* one iteration of the loop over data: convert_opening, then extend
ConvertOpening ==
    /\ pc = "loop"
    /\ \E opening_data \in OpeningData(MaxInputSize - DataSize(data) - 1) :
           LET positions == convert_opening(
                                JsonOpening(opening_data.name, opening_data.moves))
           IN  /\ positions.ok
               /\ data' = Append(data, opening_data)
               /\ all_positions' = all_positions \o positions.value
    /\ UNCHANGED <<self, returned, move, opening_name, ret, pc>>
    /\ UNCHANGED driverVars

\* an iteration in which convert_opening raises: the exception leaves the method
ConvertOpeningRaises ==
    /\ pc = "loop"
    /\ \E opening_data \in OpeningData(MaxInputSize - DataSize(data) - 1) :
           LET positions == convert_opening(
                                JsonOpening(opening_data.name, opening_data.moves))
           IN  /\ ~positions.ok
               /\ data' = Append(data, opening_data)
               /\ ret' = [fn |-> "convert_json_file", out |-> positions]
    /\ pc' = "raised"
    /\ UNCHANGED <<self, returned, move, opening_name, all_positions>>
    /\ UNCHANGED driverVars

\* the loop is over: return all_positions
ReturnAllPositions ==
    /\ pc = "loop"
    /\ ret' = [fn |-> "convert_json_file", out |-> Returned(all_positions)]
    /\ pc' = "returned"
    /\ UNCHANGED <<self, returned, move, opening_name, data, all_positions>>
    /\ UNCHANGED driverVars

Next ==
    \/ ConvertOpening
    \/ ConvertOpeningRaises
    \/ ReturnAllPositions

Spec == Init /\ [][Next]_vars

-----------------------------------------------------------------------------
(* Properties of the methods, checked under SpecFn *)

CalledConvertMove == ret.fn = "convert_move" /\ ret.out.ok

\* C1: every ConvertedMove that convert_move produces has a weight between 0
\* and 1000, also when the promotion bonus and the square bonus meet the
\* highest base weight.
C1_WeightInRange ==
    CalledConvertMove =>
        (0 <= ret.out.value.weight /\ ret.out.value.weight <= 1000)

C1_Witness ==
    /\ CalledConvertMove
    /\ opening_name = "Aggressive Rook"
    /\ move.promote
    /\ move.from_pos = <<"2", "7">>
    /\ ret.out.value.weight = 1000

C2_Base(name) ==
    CASE name = "Aggressive Rook" -> 850
      [] name = "Yagura" -> 800
      [] name = "Kakugawari (Bishop Exchange)" -> 750
      [] name = "Shikenbisya (Fourth File Rook)" -> 700
      [] name = "Aigakari (Double Wing Attack)" -> 650
      [] name = "Side Pawn Picker (Yokofudori)" -> 600
      [] OTHER -> 500

C2_MoveBonus(m) ==
    IF m.promote THEN 100 ELSE IF m.from_pos = drop THEN 50 ELSE 0

C2_SquareBonus(m, name) ==
    IF \/ (name = "Aggressive Rook"
           /\ m.from_pos \in {<<"2", "7">>, <<"2", "6">>, <<"2", "5">>})
       \/ (name = "Yagura" /\ m.from_pos \in {<<"7", "7">>, <<"6", "9">>})
    THEN 50 ELSE 0

C2_Min(a, b) == IF a <= b THEN a ELSE b

\* C2: assign_weight returns min(1000, base + moveBonus + squareBonus), with
\* base from the per-opening table (500 for an unknown opening), moveBonus 100
\* for a promotion, else 50 for a drop, else 0, and squareBonus 50 exactly for
\* Aggressive Rook from 27/26/25 and Yagura from 77/69.
C2_WeightFormula ==
    ret.fn = "assign_weight" =>
        ret.out = C2_Min(1000, C2_Base(opening_name) + C2_MoveBonus(move)
                                   + C2_SquareBonus(move, opening_name))

\* a promoting drop gets 100, not 150
C2_Witness ==
    /\ ret.fn = "assign_weight"
    /\ move.promote
    /\ move.from_pos = drop
    /\ opening_name = "Test Opening"
    /\ ret.out = 600

C3_CategoryScore(t) ==
    CASE t = "development" -> 15
      [] t = "central_control" -> 20
      [] t = "king_safety" -> 25
      [] t = "tactical" -> 30
      [] t = "positional" -> 10
      [] t = "neutral" -> 0

\* C3 as stated: assign_evaluation returns the category's base score, plus 10
\* for the bishop-exchange opening and 5 for every other opening, plus 15 for
\* a promotion.
C3_AsStated ==
    ret.fn = "assign_evaluation" =>
        ret.out = C3_CategoryScore(determine_move_type(move, opening_name))
                  + (IF opening_name = "Kakugawari (Bishop Exchange)" THEN 10 ELSE 5)
                  + (IF move.promote THEN 15 ELSE 0)

\* C3, amended: the opening bonus is 10 for the bishop-exchange opening, 5 for
\* Aggressive Rook and Yagura only, and 0 for every other opening; the sum of
\* base score, opening bonus and promotion bonus (15) is returned uncapped.
C3_Evaluation ==
    ret.fn = "assign_evaluation" =>
        ret.out = C3_CategoryScore(determine_move_type(move, opening_name))
                  + (IF opening_name = "Kakugawari (Bishop Exchange)" THEN 10
                     ELSE IF opening_name \in {"Aggressive Rook", "Yagura"} THEN 5
                     ELSE 0)
                  + (IF move.promote THEN 15 ELSE 0)

\* a promoting move of an opening outside the three named ones: 30 + 0 + 15
C3_Witness ==
    /\ ret.fn = "assign_evaluation"
    /\ opening_name = "Test Opening"
    /\ move.promote
    /\ ret.out = 45

\* C4: determine_move_type takes the first match of: drop -> tactical,
\* promotion -> tactical, to in {44,45,54,55} -> central_control, to in
\* {77,78,87,88} -> king_safety, opening in {Yagura, Aggressive Rook} ->
\* development, otherwise positional.
C4_MoveTypeOrder ==
    ret.fn = "determine_move_type" =>
        ret.out =
            CASE move.from_pos = drop -> "tactical"
              [] move.from_pos # drop /\ move.promote -> "tactical"
              [] move.from_pos # drop /\ ~move.promote
                 /\ move.to_pos \in {<<"4", "4">>, <<"4", "5">>, <<"5", "4">>, <<"5", "5">>}
                    -> "central_control"
              [] move.from_pos # drop /\ ~move.promote
                 /\ move.to_pos \in {<<"7", "7">>, <<"7", "8">>, <<"8", "7">>, <<"8", "8">>}
                    -> "king_safety"
              [] OTHER ->
                    IF opening_name \in {"Yagura", "Aggressive Rook"}
                    THEN "development" ELSE "positional"

\* an earlier rule wins: a Yagura move to 78 is king_safety, not development
C4_Witness ==
    /\ ret.fn = "determine_move_type"
    /\ opening_name = "Yagura"
    /\ move.from_pos = <<"6", "9">>
    /\ move.to_pos = <<"7", "8">>
    /\ ~move.promote
    /\ ret.out = "king_safety"

\* the inputs determine_piece_type meets inside convert_move: the from token
\* is the drop sentinel or has two characters, the to token has two
C5_SquaresOrDrop(m) ==
    /\ (m.from_pos = drop \/ Len(m.from_pos) = 2)
    /\ Len(m.to_pos) = 2

C5_SquareRules(m, name) ==
    IF name = "Aggressive Rook"
       /\ m.from_pos \in {<<"2", "7">>, <<"2", "6">>, <<"2", "5">>}
    THEN "Rook"
    ELSE IF name = "Yagura" /\ m.from_pos \in {<<"7", "7">>, <<"7", "6">>}
    THEN "Pawn"
    ELSE IF name = "Yagura"
            /\ (m.from_pos = <<"6", "9">> \/ m.to_pos = <<"7", "8">>)
    THEN "Gold"
    ELSE IF name = "Kakugawari (Bishop Exchange)"
            /\ (m.from_pos = <<"2", "2">> \/ m.to_pos = <<"8", "8">>)
    THEN "Bishop"
    ELSE "Pawn"

\* C5 as stated: the lookup on (opening, from, to) with Pawn for every other
\* combination, every drop among them.
C5_AsStated ==
    (ret.fn = "determine_piece_type" /\ C5_SquaresOrDrop(move)) =>
        ret.out = IF move.from_pos = drop THEN "Pawn"
                  ELSE C5_SquareRules(move, opening_name)

\* C5, amended: the same lookup, but a drop is matched on its to-square like
\* any other move (a Yagura drop on 78 is Gold, a Kakugawari drop on 88 is
\* Bishop); only the remaining drops and combinations resolve to Pawn.
C5_PieceType ==
    (ret.fn = "determine_piece_type" /\ C5_SquaresOrDrop(move)) =>
        ret.out = C5_SquareRules(move, opening_name)

C5_Witness ==
    /\ ret.fn = "determine_piece_type"
    /\ move.from_pos = drop
    /\ move.to_pos = <<"7", "8">>
    /\ opening_name = "Yagura"
    /\ ret.out = "Gold"

C6_Digits19 == {"1", "2", "3", "4", "5", "6", "7", "8", "9"}

C6_Value(c) == CHOOSE n \in 0..9 : <<"0", "1", "2", "3", "4", "5", "6", "7", "8", "9">>[n + 1] = c

\* C6: convert_coordinate succeeds exactly on two-character tokens of digits
\* 1-9, returning (second digit - 1, first digit - 1) within [0,8]; on every
\* other token it raises the invalid-coordinate error and returns no pair.
C6_CoordinateContract ==
    ret.fn = "convert_coordinate" =>
        IF Len(ret.arg) = 2 /\ ret.arg[1] \in C6_Digits19 /\ ret.arg[2] \in C6_Digits19
        THEN /\ ret.out.ok
             /\ ret.out.value = <<C6_Value(ret.arg[2]) - 1, C6_Value(ret.arg[1]) - 1>>
             /\ ret.out.value[1] \in 0..8
             /\ ret.out.value[2] \in 0..8
        ELSE /\ ~ret.out.ok
             /\ ret.out.error = "ValueError"

\* "27" is column 2, row 7: (row, col) = (6, 1)
C6_Witness ==
    /\ ret.fn = "convert_coordinate"
    /\ ret.arg = <<"2", "7">>
    /\ ret.out.ok
    /\ ret.out.value = <<6, 1>>

\* C10: a ConvertedMove with is_drop true has no from-coordinate: what it
\* holds there differs from the square (row 0, col 0).
C10_DropFromAbsent ==
    (CalledConvertMove /\ ret.out.value.is_drop) =>
        <<ret.out.value.from_row, ret.out.value.from_col>> # <<0, 0>>

-----------------------------------------------------------------------------
(* Properties of convert_json_file, checked under Spec *)

ReturnedCatalog == ret.fn = "convert_json_file" /\ ret.out.ok

\* the (position identifier, opening name, move list) entries of the input in
\* file order
RECURSIVE InputItems(_)
InputItems(d) ==
    IF d = <<>> THEN <<>>
    ELSE [k \in 1..Len(Head(d).moves) |->
             [fen |-> Head(d).moves[k].fen, name |-> Head(d).name,
              moves |-> Head(d).moves[k].moves]]
         \o InputItems(Tail(d))

\* C7: no two Position entries of a catalog returned by convert_json_file
\* carry the same position identifier.
C7_UniqueIdentifiers ==
    ReturnedCatalog =>
        \A i, j \in DOMAIN ret.out.value :
            i # j => ret.out.value[i].fen # ret.out.value[j].fen

\* identifiers in order of first appearance
RECURSIVE C8_FirstAppearances(_, _)
C8_FirstAppearances(items, seen) ==
    IF items = <<>> THEN <<>>
    ELSE IF Head(items).fen \in seen THEN C8_FirstAppearances(Tail(items), seen)
    ELSE <<Head(items).fen>>
         \o C8_FirstAppearances(Tail(items), seen \cup {Head(items).fen})

\* the converted moves of one identifier, over all its entries, in input order
RECURSIVE C8_GroupMoves(_, _)
C8_GroupMoves(items, fen) ==
    IF items = <<>> THEN <<>>
    ELSE (IF Head(items).fen = fen
          THEN [i \in 1..Len(Head(items).moves) |->
                   convert_move(ParseMove(Head(items).moves[i]), fen,
                                Head(items).name).value]
          ELSE <<>>)
         \o C8_GroupMoves(Tail(items), fen)

\* C8: the catalog holds one Position per identifier, in order of first
\* appearance, and the Position holds all moves given for that identifier in
\* input order (identifiers A, B, A give A with both moves, then B).
C8_GroupedByIdentifier ==
    ReturnedCatalog =>
        LET items == InputItems(data)
            ids == C8_FirstAppearances(items, {})
        IN  ret.out.value =
                [k \in 1..Len(ids) |->
                    ConvertedPosition(ids[k], C8_GroupMoves(items, ids[k]))]

\* C9: conversion neither drops nor merges moves: the positions converted so
\* far are the input's entries one for one, each with a move list as long as
\* the input's, whose i-th move is the conversion of the i-th input move.
C9_MovesOneForOne ==
    pc \in {"loop", "returned"} =>
        LET items == InputItems(data)
        IN  /\ Len(all_positions) = Len(items)
            /\ \A k \in DOMAIN all_positions :
                   /\ all_positions[k].fen = items[k].fen
                   /\ Len(all_positions[k].moves) = Len(items[k].moves)
                   /\ \A i \in DOMAIN all_positions[k].moves :
                          all_positions[k].moves[i] =
                              convert_move(ParseMove(items[k].moves[i]),
                                           items[k].fen, items[k].name).value

\* two identical input moves of one position came out as two identical moves
C9_Witness ==
    /\ ReturnedCatalog
    /\ \E k \in DOMAIN ret.out.value :
           /\ Len(InputItems(data)[k].moves) = 2
           /\ InputItems(data)[k].moves[1] = InputItems(data)[k].moves[2]
           /\ Len(ret.out.value[k].moves) = 2
           /\ ret.out.value[k].moves[1] = ret.out.value[k].moves[2]

-----------------------------------------------------------------------------
(* More properties of the methods, checked under SpecFn *)

\* C17: promotion is monotonic for weight: assign_weight of a promoting move
\* is at least assign_weight of the same move (same opening, same squares,
\* drop or not) without the promotion.
C17_PromotionMonotonic ==
    (ret.fn = "assign_weight" /\ move.promote) =>
        ret.out >= assign_weight([move EXCEPT !.promote = FALSE], opening_name)

\* a promoting drop (base + 100) against the same drop unpromoted (base + 50)
C17_Witness ==
    /\ ret.fn = "assign_weight"
    /\ move.promote
    /\ move.from_pos = drop
    /\ opening_name = "Yagura"
    /\ ret.out = 900
    /\ assign_weight([move EXCEPT !.promote = FALSE], opening_name) = 850

-----------------------------------------------------------------------------
(* Rendering.  A rendered text is the sequence of its pieces: the literal   *)
(* parts of the f-strings, the characters of the formatted numbers, the    *)
(* stored strings, and "\n" between two lines.                             *)

DigitOf(d) == <<"0", "1", "2", "3", "4", "5", "6", "7", "8", "9">>[d + 1]

\* the decimal digits of a natural number, most significant first
RECURSIVE StrNat(_)
StrNat(n) ==
    IF n < 10 THEN <<DigitOf(n)>>
    ELSE Append(StrNat(n \div 10), DigitOf(n % 10))

\* str(n) as the f-strings format an int
Str(n) == IF n < 0 THEN <<"-">> \o StrNat(0 - n) ELSE StrNat(n)

\* str(b).lower() of a bool
StrLower(b) == IF b THEN "true" ELSE "false"

\* "\n".join(lines)
RECURSIVE Join(_)
Join(lines) ==
    IF lines = <<>> THEN <<>>
    ELSE IF Len(lines) = 1 THEN lines[1]
    ELSE lines[1] \o <<"\n">> \o Join(Tail(lines))

\* the from-argument of a renderer that tells a drop by its zero square
from_str_by_square(move_data) ==
    IF move_data.from_row = 0 /\ move_data.from_col = 0 THEN <<"None">>
    ELSE <<"Some(Position::new(">> \o Str(move_data.from_row) \o <<", ">>
             \o Str(move_data.from_col) \o <<"))">>

from_str(move_data) ==
    IF move_data.is_drop THEN <<"None">>
    ELSE <<"Some(Position::new(">> \o Str(move_data.from_row) \o <<", ">>
             \o Str(move_data.from_col) \o <<"))">>

\* the eleven lines appended for one move
rust_move(move_data) ==
    << <<"        BookMove::new_with_metadata(">>,
       <<"            ">> \o from_str(move_data) \o <<",">>,
       <<"            Position::new(">> \o Str(move_data.to_row) \o <<", ">>
           \o Str(move_data.to_col) \o <<"),">>,
       <<"            PieceType::", move_data.piece_type, ",">>,
       <<"            ", StrLower(move_data.is_drop), ",">>,
       <<"            ", StrLower(move_data.is_promotion), ",">>,
       <<"            ">> \o Str(move_data.weight) \o <<",">>,
       <<"            ">> \o Str(move_data.evaluation) \o <<",">>,
       <<"            Some(\"", move_data.opening_name, "\".to_string()),">>,
       <<"            Some(\"">> \o move_data.move_notation \o <<"\".to_string()),">>,
       <<"        ),">> >>

\* the inner loop: the lines for the moves from index i on
RECURSIVE rust_moves(_, _)
rust_moves(moves, i) ==
    IF i > Len(moves) THEN <<>>
    ELSE rust_move(moves[i]) \o rust_moves(moves, i + 1)

\* the outer loop: the lines for the positions from index k on
RECURSIVE rust_positions(_, _)
rust_positions(positions, k) ==
    IF k > Len(positions) THEN <<>>
    ELSE LET pos == positions[k]
         IN  << <<"    // Position: ", pos.fen>>,
                <<"    let moves = vec![">> >>
             \o rust_moves(pos.moves, 1)
             \o << <<"    ];">>,
                   <<"    book.add_position(\"", pos.fen, "\".to_string(), moves);">>,
                   <<>> >>
             \o rust_positions(positions, k + 1)

generate_rust_code(positions) ==
    Join(<< <<"use crate::opening_book::*;">>,
            <<"use crate::types::*;">>,
            <<>>,
            <<"pub fn create_opening_book() -> OpeningBook {">>,
            <<"    let mut book = OpeningBook::new();">>,
            <<>> >>
         \o rust_positions(positions, 1)
         \o << <<"    book.mark_loaded()">>,
               <<"}">> >>)

\* a dict from strings to counts, in insertion order: a sequence of items
\* d[k] = d.get(k, 0) + 1
CountUp(d, k) ==
    IF \E i \in 1..Len(d) : d[i].key = k
    THEN [i \in 1..Len(d) |->
             IF d[i].key = k THEN [d[i] EXCEPT !.count = @ + 1] ELSE d[i]]
    ELSE Append(d, [key |-> k, count |-> 1])

\* inserts one item behind every item sorted so far whose count is not larger
InsertAscending(sorted, item) ==
    LET n == Cardinality({i \in 1..Len(sorted) : sorted[i].count <= item.count})
    IN  SubSeq(sorted, 1, n) \o <<item>> \o SubSeq(sorted, n + 1, Len(sorted))

\* sorted(d.items(), key=count) without reverse=True
RECURSIVE sorted_by_count_ascending(_)
sorted_by_count_ascending(items) ==
    IF items = <<>> THEN <<>>
    ELSE InsertAscending(sorted_by_count_ascending(SubSeq(items, 1, Len(items) - 1)),
                         items[Len(items)])

\* inserts one item behind every item sorted so far whose count is not smaller
InsertDescending(sorted, item) ==
    LET n == Cardinality({i \in 1..Len(sorted) : sorted[i].count >= item.count})
    IN  SubSeq(sorted, 1, n) \o <<item>> \o SubSeq(sorted, n + 1, Len(sorted))

\* sorted(d.items(), key=lambda x: x[1], reverse=True): stable, so items of
\* equal count stay in insertion order
RECURSIVE sorted_by_count(_)
sorted_by_count(items) ==
    IF items = <<>> THEN <<>>
    ELSE InsertDescending(sorted_by_count(SubSeq(items, 1, Len(items) - 1)),
                          items[Len(items)])

\* the bucket test with the upper threshold exclusive
weight_bucket_exclusive(weight) ==
    IF weight > 800 THEN "high"
    ELSE IF weight >= 500 THEN "medium"
    ELSE "low"

\* the if/elif/else that picks the bucket of one weight
weight_bucket(weight) ==
    IF weight >= 800 THEN "high"
    ELSE IF weight >= 500 THEN "medium"
    ELSE "low"

NoCounts ==
    [opening_counts |-> <<>>, piece_type_counts |-> <<>>,
     weight_distribution |-> [high |-> 0, medium |-> 0, low |-> 0]]

\* the body of the counting loop for one move
count_move(counts, move_data) ==
    [opening_counts |-> CountUp(counts.opening_counts, move_data.opening_name),
     piece_type_counts |-> CountUp(counts.piece_type_counts, move_data.piece_type),
     weight_distribution |->
         [counts.weight_distribution EXCEPT ![weight_bucket(move_data.weight)] = @ + 1]]

RECURSIVE count_moves(_, _, _)
count_moves(moves, i, counts) ==
    IF i > Len(moves) THEN counts
    ELSE count_moves(moves, i + 1, count_move(counts, moves[i]))

RECURSIVE count_positions(_, _, _)
count_positions(positions, k, counts) ==
    IF k > Len(positions) THEN counts
    ELSE count_positions(positions, k + 1,
                         count_moves(positions[k].moves, 1, counts))

\* a total that counts the moves of the first position only
total_moves_of_first(positions) ==
    IF positions = <<>> THEN 0 ELSE Len(positions[1].moves)

\* sum(len(pos.moves) for pos in positions)
RECURSIVE total_moves(_)
total_moves(positions) ==
    IF positions = <<>> THEN 0
    ELSE Len(positions[1].moves) + total_moves(Tail(positions))

\* one "  {key}: {count} moves" line per item
count_lines(items) ==
    [i \in 1..Len(items) |->
        <<"  ", items[i].key, ": ">> \o Str(items[i].count) \o <<" moves">>]

generate_migration_report(positions) ==
    LET counts == count_positions(positions, 1, NoCounts)
    IN  Join(<< <<"=== Opening Book Migration Report ===">>,
                <<"Total Positions: ">> \o Str(Len(positions)),
                <<"Total Moves: ">> \o Str(total_moves(positions)),
                <<>>,
                <<"Opening Distribution:">> >>
             \o count_lines(sorted_by_count(counts.opening_counts))
             \o << <<>>,
                   <<"Piece Type Distribution:">> >>
             \o count_lines(sorted_by_count(counts.piece_type_counts))
             \o << <<>>,
                   <<"Weight Distribution:">>,
                   <<"  High (800+): ">> \o Str(counts.weight_distribution.high) \o <<" moves">>,
                   <<"  Medium (500-799): ">> \o Str(counts.weight_distribution.medium) \o <<" moves">>,
                   <<"  Low (<500): ">> \o Str(counts.weight_distribution.low) \o <<" moves">> >>)

-----------------------------------------------------------------------------
(* SpecRender: the two renderers applied to one catalog.  The catalog is   *)
(* any list of ConvertedPosition, not only one convert_json_file returns:  *)
(* an identifier may repeat, a weight may be below every table entry, and  *)
(* a move from square "11" has from_row = from_col = 0 without being a     *)
(* drop.                                                                   *)

MaxCatalogSize == 5

SampleMoves ==
    { ConvertedMove(6, 2, 5, 2, "Pawn", FALSE, FALSE, 900, 15, "Yagura",
                    <<"7", "g", "7", "f">>),
      ConvertedMove(0, 0, 4, 4, "Gold", TRUE, FALSE, 800, 25, "Yagura",
                    <<"G", "*", "5", "e">>),
      ConvertedMove(6, 1, 5, 1, "Rook", FALSE, TRUE, 600, 45, "Aggressive Rook",
                    <<"2", "g", "2", "f", "+">>),
      ConvertedMove(0, 0, 1, 0, "Lance", FALSE, FALSE, 500, 10, "Test Opening",
                    <<"1", "a", "1", "b">>),
      ConvertedMove(2, 7, 3, 7, "Pawn", FALSE, FALSE, 300, 0, "Test Opening",
                    <<"8", "c", "8", "d">>) }

\* the move lists of at most n moves
SampleMoveLists(n) == UNION {[1..k -> SampleMoves] : k \in 0..n}

\* the catalogs whose positions and moves together number at most n
RECURSIVE Catalogs(_)
Catalogs(n) ==
    IF n <= 0 THEN {<<>>}
    ELSE {<<>>} \cup
         UNION {{<<ConvertedPosition(fen, moves)>> \o rest :
                     fen \in Fens, rest \in Catalogs(n - 1 - Len(moves))} :
                 moves \in SampleMoveLists(n - 1)}

InitRender ==
    /\ self = OpeningBookConverter
    /\ returned = <<>>
    /\ catalog \in Catalogs(MaxCatalogSize)
    /\ ret = NoCall
    /\ move = NoMove
    /\ opening_name = ""
    /\ data = <<>>
    /\ all_positions = <<>>
    /\ pc = "idle"
    /\ analyses = <<>>
    /\ args = NoArgs
    /\ fs = NoFiles
    /\ exit_status = Running

CallGenerateRustCode ==
    /\ pc = "idle"
    /\ ret = NoCall
    /\ ret' = [fn |-> "generate_rust_code", out |-> generate_rust_code(catalog)]
    /\ UNCHANGED <<self, returned, move, opening_name, data, all_positions, pc>>
    /\ UNCHANGED driverVars

CallGenerateMigrationReport ==
    /\ pc = "idle"
    /\ ret = NoCall
    /\ ret' = [fn |-> "generate_migration_report",
               out |-> generate_migration_report(catalog)]
    /\ UNCHANGED <<self, returned, move, opening_name, data, all_positions, pc>>
    /\ UNCHANGED driverVars

NextRender ==
    \/ CallGenerateRustCode
    \/ CallGenerateMigrationReport

SpecRender == InitRender /\ [][NextRender]_vars

-----------------------------------------------------------------------------
(* Properties of the renderers, checked under SpecRender.  They read the   *)
(* rendered text back: its lines, and the numbers written in them.         *)

\* text.split("\n")
RECURSIVE SplitLines(_)
SplitLines(text) ==
    IF \E i \in 1..Len(text) : text[i] = "\n"
    THEN LET i == CHOOSE i \in 1..Len(text) :
                     text[i] = "\n" /\ \A j \in 1..(i - 1) : text[j] # "\n"
         IN  <<SubSeq(text, 1, i - 1)>> \o SplitLines(SubSeq(text, i + 1, Len(text)))
    ELSE <<text>>

\* the number a run of decimal digits denotes
RECURSIVE NatOf(_)
NatOf(digits) ==
    IF digits = <<>> THEN 0
    ELSE NatOf(SubSeq(digits, 1, Len(digits) - 1)) * 10 + IntOf(digits[Len(digits)])

\* the catalog's moves, each named by its position index and move index
MovesOf(positions) ==
    UNION {{<<k, i>> : i \in 1..Len(positions[k].moves)} : k \in 1..Len(positions)}

IsPositionComment(line) == Len(line) = 2 /\ line[1] = "    // Position: "
IsMoveRecord(line) == line = <<"        BookMove::new_with_metadata(">>
IsAddPosition(line) ==
    Len(line) = 3 /\ line[1] = "    book.add_position(\""
                  /\ line[3] = "\".to_string(), moves);"

\* the from-argument written on the line behind a move record's opening line
C11_FromArgument(line) ==
    LET arg == SubSeq(line, 2, Len(line) - 1)
    IN  IF arg = <<"None">> THEN [none |-> TRUE, row |-> 0, col |-> 0]
        ELSE LET sep == CHOOSE i \in 1..Len(arg) : arg[i] = ", "
             IN  [none |-> FALSE,
                  row |-> NatOf(SubSeq(arg, 2, sep - 1)),
                  col |-> NatOf(SubSeq(arg, sep + 1, Len(arg) - 1))]

\* what lines i.. of a source text emit: comments, move records, add_positions
RECURSIVE C11_Emitted(_, _)
C11_Emitted(lines, i) ==
    IF i > Len(lines) THEN <<>>
    ELSE (IF IsPositionComment(lines[i])
          THEN <<[kind |-> "comment", fen |-> lines[i][2],
                  from |-> [none |-> TRUE, row |-> 0, col |-> 0]]>>
          ELSE IF IsMoveRecord(lines[i])
          THEN <<[kind |-> "record", fen |-> "",
                  from |-> C11_FromArgument(lines[i + 1])]>>
          ELSE IF IsAddPosition(lines[i])
          THEN <<[kind |-> "add", fen |-> lines[i][2],
                  from |-> [none |-> TRUE, row |-> 0, col |-> 0]]>>
          ELSE <<>>)
         \o C11_Emitted(lines, i + 1)

\* what the catalog calls for, positions from index k on
RECURSIVE C11_CalledFor(_, _)
C11_CalledFor(positions, k) ==
    IF k > Len(positions) THEN <<>>
    ELSE <<[kind |-> "comment", fen |-> positions[k].fen,
            from |-> [none |-> TRUE, row |-> 0, col |-> 0]]>>
         \o [i \in 1..Len(positions[k].moves) |->
                LET m == positions[k].moves[i]
                IN  [kind |-> "record", fen |-> "",
                     from |-> IF m.is_drop
                              THEN [none |-> TRUE, row |-> 0, col |-> 0]
                              ELSE [none |-> FALSE, row |-> m.from_row,
                                    col |-> m.from_col]]]
         \o <<[kind |-> "add", fen |-> positions[k].fen,
               from |-> [none |-> TRUE, row |-> 0, col |-> 0]]>>
         \o C11_CalledFor(positions, k + 1)

\* C11: generate_rust_code emits, for the positions in catalog order, one
\* position comment, then exactly one move record per move in the move order
\* of the position, then one add_position for that identifier; the from-argument
\* of a record is None exactly when is_drop is true, and otherwise holds the
\* from_row and from_col of the move.
C11_RustStructure ==
    ret.fn = "generate_rust_code" =>
        C11_Emitted(SplitLines(ret.out), 1) = C11_CalledFor(catalog, 1)

\* two positions rendered, one of them with a drop and with a move that
\* leaves square (0, 0) without being a drop
C11_Witness ==
    /\ ret.fn = "generate_rust_code"
    /\ Len(catalog) = 2
    /\ \E k \in 1..Len(catalog) :
          /\ Len(catalog[k].moves) = 2
          /\ catalog[k].moves[1].is_drop
          /\ ~catalog[k].moves[2].is_drop
          /\ catalog[k].moves[2].from_row = 0
          /\ catalog[k].moves[2].from_col = 0

\* the number written behind the label of a "label: number" line
C15_Total(line) == NatOf(Tail(line))

\* the lines of the section under a header line, up to the next empty line
C15_Section(lines, header) ==
    LET h == CHOOSE i \in 1..Len(lines) : lines[i] = <<header>>
        e == IF \E j \in (h + 1)..Len(lines) : lines[j] = <<>>
             THEN CHOOSE j \in (h + 1)..Len(lines) :
                      lines[j] = <<>> /\ \A x \in (h + 1)..(j - 1) : lines[x] # <<>>
             ELSE Len(lines) + 1
    IN  SubSeq(lines, h + 1, e - 1)

\* the key and the count written on a "  key: count moves" line
C15_Item(line) ==
    [key |-> line[2], count |-> NatOf(SubSeq(line, 4, Len(line) - 1))]

\* a section lists every key that occurs once, with the number of moves
\* carrying it, and no line has a larger count than a line above it
C15_Distribution(section, field) ==
    LET items == [i \in 1..Len(section) |-> C15_Item(section[i])]
        keys == {catalog[x[1]].moves[x[2]][field] : x \in MovesOf(catalog)}
    IN  /\ {items[i].key : i \in 1..Len(items)} = keys
        /\ Len(items) = Cardinality(keys)
        /\ \A i \in 1..Len(items) :
              items[i].count =
                  Cardinality({x \in MovesOf(catalog) :
                                  catalog[x[1]].moves[x[2]][field] = items[i].key})
        /\ \A i, j \in 1..Len(items) : i < j => items[i].count >= items[j].count

\* C15: generate_migration_report reports Total Positions = the number of
\* positions, Total Moves = the sum of the lengths of their move lists, one
\* count per opening name and one per piece type, each equal to the number of
\* moves carrying it, and both lists in descending order of count.
C15_ReportCounts ==
    ret.fn = "generate_migration_report" =>
        LET lines == SplitLines(ret.out)
        IN  /\ lines[2][1] = "Total Positions: "
            /\ C15_Total(lines[2]) = Len(catalog)
            /\ lines[3][1] = "Total Moves: "
            /\ C15_Total(lines[3]) = Cardinality(MovesOf(catalog))
            /\ C15_Distribution(C15_Section(lines, "Opening Distribution:"),
                                "opening_name")
            /\ C15_Distribution(C15_Section(lines, "Piece Type Distribution:"),
                                "piece_type")

\* a report where the opening seen first has fewer moves than the one seen
\* after it, so that the order of the lines is not the order of appearance
C15_Witness ==
    /\ ret.fn = "generate_migration_report"
    /\ Len(catalog) = 2
    /\ Len(catalog[1].moves) = 1
    /\ Len(catalog[2].moves) = 2
    /\ catalog[1].moves[1].opening_name = "Aggressive Rook"
    /\ catalog[2].moves[1].opening_name = "Yagura"
    /\ catalog[2].moves[2].opening_name = "Yagura"
    /\ C15_Item(C15_Section(SplitLines(ret.out), "Opening Distribution:")[1])
           = [key |-> "Yagura", count |-> 2]

\* the count written on one line of the weight histogram
C16_Bucket(lines, label) ==
    LET i == CHOOSE i \in 1..Len(lines) : Len(lines[i]) > 0 /\ lines[i][1] = label
    IN  NatOf(SubSeq(lines[i], 2, Len(lines[i]) - 1))

\* the weights of the catalog's moves, as often as they occur
C16_Weighing(lo, hi) ==
    Cardinality({x \in MovesOf(catalog) :
                    /\ lo <= catalog[x[1]].moves[x[2]].weight
                    /\ catalog[x[1]].moves[x[2]].weight < hi})

\* C16: the weight histogram counts every move in exactly one bucket: high
\* iff weight >= 800, medium iff 500 <= weight < 800, low iff weight < 500; the
\* three counts add up to Total Moves; weights 900, 600 and 300 give 1, 1, 1;
\* a weight of 800 is counted high and a weight of 500 medium.
C16_WeightHistogram ==
    ret.fn = "generate_migration_report" =>
        LET lines == SplitLines(ret.out)
            high == C16_Bucket(lines, "  High (800+): ")
            medium == C16_Bucket(lines, "  Medium (500-799): ")
            low == C16_Bucket(lines, "  Low (<500): ")
        IN  /\ high = C16_Weighing(800, 1000000)
            /\ medium = C16_Weighing(500, 800)
            /\ low = C16_Weighing(-1000000, 500)
            /\ high + medium + low = C15_Total(lines[3])
            /\ (Cardinality(MovesOf(catalog)) = 3
                /\ \A w \in {900, 600, 300} : C16_Weighing(w, w + 1) = 1)
               => (high = 1 /\ medium = 1 /\ low = 1)
            /\ (Cardinality(MovesOf(catalog)) = 1 /\ C16_Weighing(800, 801) = 1)
               => (high = 1 /\ medium = 0 /\ low = 0)
            /\ (Cardinality(MovesOf(catalog)) = 1 /\ C16_Weighing(500, 501) = 1)
               => (high = 0 /\ medium = 1 /\ low = 0)

\* the report of three moves weighing 900, 600 and 300
C16_Witness ==
    /\ ret.fn = "generate_migration_report"
    /\ Cardinality(MovesOf(catalog)) = 3
    /\ \A w \in {900, 600, 300} : C16_Weighing(w, w + 1) = 1
    /\ C16_Bucket(SplitLines(ret.out), "  High (800+): ") = 1
    /\ C16_Bucket(SplitLines(ret.out), "  Medium (500-799): ") = 1
    /\ C16_Bucket(SplitLines(ret.out), "  Low (<500): ") = 1

-----------------------------------------------------------------------------
(* SpecMain: the command-line driver.  The file system is what main reads  *)
(* and writes: the input file, the output directory and the two artifacts. *)
(* A call of the operating system may fail whenever it is made.            *)

\* all_positions after extending it with every list of positions, in order
RECURSIVE Extend(_, _)
Extend(positions_so_far, lists) ==
    IF lists = <<>> THEN positions_so_far
    ELSE Extend(positions_so_far \o Head(lists), Tail(lists))

\* what convert_opening does with each opening record of the data, in order
OpeningResults(d) ==
    [i \in 1..Len(d) |-> convert_opening(JsonOpening(d[i].name, d[i].moves))]

\* the loop over the opening records, given what convert_opening does with
\* each: it ends at the first one that raises, else returns all_positions
LoopOverData(results) ==
    IF \E i \in 1..Len(results) : ~results[i].ok
    THEN results[CHOOSE i \in 1..Len(results) :
                     ~results[i].ok /\ \A j \in 1..(i - 1) : results[j].ok]
    ELSE Returned(Extend(<<>>, [i \in 1..Len(results) |-> results[i].value]))

\* a loop that leaves out the openings convert_opening cannot convert
LoopOverDataSkipping(results) ==
    Returned(Extend(<<>>, [i \in 1..Len(SelectSeq(results, LAMBDA r : r.ok)) |->
                              SelectSeq(results, LAMBDA r : r.ok)[i].value]))

\* a convert_json_file that returns a catalog whatever the moves are
convert_json_file_partial(d) == LoopOverDataSkipping(OpeningResults(d))

convert_json_file(d) == LoopOverData(OpeningResults(d))

MaxMainInputSize == 6

\* a good move, a move whose from-square is out of range, a move whose
\* to-square is malformed
MainMoveData ==
    {[from |-> <<"7", "7">>, to |-> <<"7", "6">>],
     [from |-> <<"0", "7">>, to |-> <<"7", "6">>],
     [from |-> <<"7", "7">>, to |-> <<"7", "x">>]}

MainMoveLists(n) == UNION {[1..k -> MainMoveData] : k \in 0..n}

MainMovesObjects(n) ==
    (IF n >= 0 THEN {<<>>} ELSE {})
    \cup {<<Item(f, l)>> : f \in Fens, l \in MainMoveLists(n - 1)}
    \cup UNION {UNION {UNION {{<<Item(f1, l1), Item(f2, l2)>> :
                                   l2 \in MainMoveLists(n - 2 - Len(l1))} :
                               l1 \in MainMoveLists(n - 2)} :
                           f2 \in Fens \ {f1}} :
                    f1 \in Fens}

\* the contents of an input file: opening records of size at most n together
RECURSIVE MainData(_)
MainData(n) ==
    IF n <= 0 THEN {<<>>}
    ELSE {<<>>} \cup
         UNION {UNION {{<<[name |-> nm, moves |-> mo]>> \o rest :
                            rest \in MainData(n - 1 - ItemsSize(mo))} :
                        mo \in MainMovesObjects(n - 1)} :
                    nm \in PipeNames}

InitMain ==
    /\ self = OpeningBookConverter
    /\ returned = <<>>
    /\ fs \in {[NoFiles EXCEPT !.input_file = i, !.output_dir = o] :
                  i \in {"missing", "json", "not json"}, o \in {"absent", "existed"}}
    /\ data \in (IF fs.input_file = "json" THEN MainData(MaxMainInputSize) ELSE {<<>>})
    /\ args \in [report : BOOLEAN, rust_code : BOOLEAN]
    /\ pc = "main"
    /\ catalog = <<>>
    /\ exit_status = Running
    /\ ret = NoCall
    /\ move = NoMove
    /\ opening_name = ""
    /\ all_positions = <<>>
    /\ analyses = <<>>

\* sys.exit(status), or the interpreter ending on an uncaught exception
Exit(status) ==
    /\ exit_status' = status
    /\ pc' = "exited"

\* a driver that makes the output directory before it looks for the input
InputMissingAfterMakedirs ==
    /\ pc = "main"
    /\ fs.input_file = "missing"
    /\ fs' = [fs EXCEPT !.output_dir = IF @ = "absent" THEN "created" ELSE @]
    /\ Exit(1)
    /\ UNCHANGED <<self, returned, move, opening_name, ret, data, all_positions, catalog, analyses, args>>

\* the input path does not exist: the message, then sys.exit(1)
InputMissing ==
    /\ pc = "main"
    /\ fs.input_file = "missing"
    /\ Exit(1)
    /\ UNCHANGED <<self, returned, move, opening_name, ret, data, all_positions, catalog, analyses, args, fs>>

\* the input path exists: os.makedirs(output_dir, exist_ok=True)
Makedirs ==
    /\ pc = "main"
    /\ fs.input_file # "missing"
    /\ fs' = [fs EXCEPT !.output_dir = IF @ = "absent" THEN "created" ELSE @]
    /\ pc' = "convert"
    /\ UNCHANGED <<self, returned, move, opening_name, ret, data, all_positions, catalog, analyses, args, exit_status>>

\* os.makedirs raises outside the try block: the exception ends the process
MakedirsRaises ==
    /\ pc = "main"
    /\ fs.input_file # "missing"
    /\ Exit(1)
    /\ UNCHANGED <<self, returned, move, opening_name, ret, data, all_positions, catalog, analyses, args, fs>>

\* positions = converter.convert_json_file(args.input_file)
Convert ==
    /\ pc = "convert"
    /\ fs.input_file = "json"
    /\ \E positions \in {convert_json_file(data)} :
           /\ positions.ok
           /\ catalog' = positions.value
           /\ ret' = [fn |-> "convert_json_file", out |-> positions]
    /\ pc' = "report"
    /\ UNCHANGED <<self, returned, move, opening_name, data, all_positions, analyses, args, fs, exit_status>>

\* convert_json_file raises: the except clause prints and calls sys.exit(1)
ConvertRaises ==
    /\ pc = "convert"
    /\ \E positions \in (IF fs.input_file = "json" THEN {convert_json_file(data)}
                         ELSE {Raised("JSONDecodeError", "Expecting value")}) :
           /\ ~positions.ok
           /\ ret' = [fn |-> "convert_json_file", out |-> positions]
    /\ Exit(1)
    /\ UNCHANGED <<self, returned, move, opening_name, data, all_positions, catalog, analyses, args, fs>>

\* what a failed open or a failed write leaves of a file that was absent:
\* nothing, or the file with the text up to where the write stopped
FailedWrite(text) == {NoFile, File(<<>>), File(SubSeq(text, 1, Len(text) \div 2))}

\* if args.report: the report is generated and written
WriteReport ==
    /\ pc = "report"
    /\ args.report
    /\ fs' = [fs EXCEPT !.report_file = File(generate_migration_report(catalog))]
    /\ pc' = "rust_code"
    /\ UNCHANGED <<self, returned, move, opening_name, ret, data, all_positions, catalog, analyses, args, exit_status>>

WriteReportRaises ==
    /\ pc = "report"
    /\ args.report
    /\ \E f \in FailedWrite(generate_migration_report(catalog)) :
           fs' = [fs EXCEPT !.report_file = f]
    /\ Exit(1)
    /\ UNCHANGED <<self, returned, move, opening_name, ret, data, all_positions, catalog, analyses, args>>

SkipReport ==
    /\ pc = "report"
    /\ ~args.report
    /\ pc' = "rust_code"
    /\ UNCHANGED <<self, returned, move, opening_name, ret, data, all_positions, catalog, analyses, args, fs, exit_status>>

\* if args.rust_code: the source text is generated and written; main returns
WriteRustCode ==
    /\ pc = "rust_code"
    /\ args.rust_code
    /\ fs' = [fs EXCEPT !.rust_file = File(generate_rust_code(catalog))]
    /\ Exit(0)
    /\ UNCHANGED <<self, returned, move, opening_name, ret, data, all_positions, catalog, analyses, args>>

\* a driver whose except clause prints the error and returns normally
WriteRustCodeRaisesSilently ==
    /\ pc = "rust_code"
    /\ args.rust_code
    /\ \E f \in FailedWrite(generate_rust_code(catalog)) :
           fs' = [fs EXCEPT !.rust_file = f]
    /\ Exit(0)
    /\ UNCHANGED <<self, returned, move, opening_name, ret, data, all_positions, catalog, analyses, args>>

WriteRustCodeRaises ==
    /\ pc = "rust_code"
    /\ args.rust_code
    /\ \E f \in FailedWrite(generate_rust_code(catalog)) :
           fs' = [fs EXCEPT !.rust_file = f]
    /\ Exit(1)
    /\ UNCHANGED <<self, returned, move, opening_name, ret, data, all_positions, catalog, analyses, args>>

SkipRustCode ==
    /\ pc = "rust_code"
    /\ ~args.rust_code
    /\ Exit(0)
    /\ UNCHANGED <<self, returned, move, opening_name, ret, data, all_positions, catalog, analyses, args, fs>>

NextMain ==
    \/ InputMissing
    \/ Makedirs
    \/ MakedirsRaises
    \/ Convert
    \/ ConvertRaises
    \/ WriteReport
    \/ WriteReportRaises
    \/ SkipReport
    \/ WriteRustCode
    \/ WriteRustCodeRaises
    \/ SkipRustCode

SpecMain == InitMain /\ [][NextMain]_vars

-----------------------------------------------------------------------------
(* Properties of the driver, checked under SpecMain *)

\* a square token the board has: two characters, each a digit from 1 to 9
C18_OnBoard(token) ==
    /\ Len(token) = 2
    /\ token[1] \in DigitChars \ {"0"}
    /\ token[2] \in DigitChars \ {"0"}

\* some move of some position of some opening record has an invalid from-square
\* (and is no drop) or an invalid to-square
C18_HasBadSquare(d) ==
    \E i \in 1..Len(d) : \E k \in 1..Len(d[i].moves) :
        \E j \in 1..Len(d[i].moves[k].moves) :
            LET move_data == d[i].moves[k].moves[j]
            IN  \/ ~C18_OnBoard(DictGet(move_data, "to", <<>>))
                \/ /\ DictGet(move_data, "from", <<>>) # drop
                   /\ ~C18_OnBoard(DictGet(move_data, "from", <<>>))

\* C18: fail-fast on a bad square: if any move of the input has an invalid
\* from- or to-square, convert_json_file returns no catalog at all, the driver
\* holds no positions, and neither the report file nor the source-text file is
\* written.
C18_FailFast ==
    (fs.input_file = "json" /\ C18_HasBadSquare(data)) =>
        /\ ret.fn = "convert_json_file" => (~ret.out.ok /\ "value" \notin DOMAIN ret.out)
        /\ catalog = <<>>
        /\ pc \notin {"report", "rust_code"}
        /\ ~fs.report_file.exists
        /\ ~fs.rust_file.exists
        /\ pc = "exited" => exit_status = 1

\* a run with both artifacts requested whose first opening converts and whose
\* second opening holds the bad square: nothing of the first is kept
C18_Witness ==
    /\ pc = "exited"
    /\ args.report /\ args.rust_code
    /\ ret.fn = "convert_json_file"
    /\ Len(data) = 2
    /\ ~C18_HasBadSquare(<<data[1]>>)
    /\ Len(data[1].moves) = 1
    /\ Len(data[1].moves[1].moves) = 1
    /\ C18_HasBadSquare(<<data[2]>>)
    /\ catalog = <<>>
    /\ ~fs.report_file.exists
    /\ ~fs.rust_file.exists

\* C19: export is all-or-nothing: a run with both the report and the source
\* text requested ends with both artifacts written or with none; it never ends
\* with exactly one of them in the output directory.
C19_AllOrNothing ==
    (pc = "exited" /\ args.report /\ args.rust_code) =>
        (fs.report_file.exists <=> fs.rust_file.exists)

\* C20: when the input path does not exist the driver ends with a non-zero
\* status before any processing: the output directory is not created, no
\* conversion runs and no artifact is written.
C20_MissingInput ==
    fs.input_file = "missing" =>
        /\ pc \in {"main", "exited"}
        /\ pc = "exited" => (exit_status # 0 /\ exit_status # Running)
        /\ fs.output_dir # "created"
        /\ ret = NoCall
        /\ catalog = <<>>
        /\ ~fs.report_file.exists
        /\ ~fs.rust_file.exists

\* the driver has ended on a missing input, with an output directory named
\* that does not exist and both artifacts requested
C20_Witness ==
    /\ fs.input_file = "missing"
    /\ pc = "exited"
    /\ exit_status = 1
    /\ fs.output_dir = "absent"
    /\ args.report /\ args.rust_code

-----------------------------------------------------------------------------
(* scripts/generate_opening_book.py: the OpeningBookGenerator that renders  *)
(* position analyses into the versioned catalog.  A move key such as       *)
(* "27-26" is a sequence of characters.  A success rate is a float with    *)
(* two decimals and is held as its number of hundredths (0.65 as 65).      *)

PositionAnalysis(fen, move_frequency, move_success_rate, move_evaluations, total_games) ==
    [fen |-> fen, move_frequency |-> move_frequency,
     move_success_rate |-> move_success_rate,
     move_evaluations |-> move_evaluations, total_games |-> total_games]

Min(a, b) == IF a < b THEN a ELSE b
Max(a, b) == IF a > b THEN a ELSE b

\* int(success_rate * 200): the float product of 0.29, 0.57 and 0.58 with 200
\* falls just below the whole number and is truncated to one less
IntTimes200(hundredths) ==
    IF hundredths \in {29, 57, 58} THEN 2 * hundredths - 1 ELSE 2 * hundredths

\* the weight formula with the total left uncapped
move_weight_uncapped(frequency, success_rate, evaluation) ==
    LET base_weight == frequency * 4
        success_bonus == IntTimes200(success_rate)
        eval_bonus == Max(0, Min(200, evaluation * 8))
    IN  base_weight + success_bonus + eval_bonus

\* the body of the loop of calculate_move_weights: total_weight of one move
move_weight(frequency, success_rate, evaluation) ==
    LET base_weight == frequency * 4
        success_bonus == IntTimes200(success_rate)
        eval_bonus == Max(0, Min(200, evaluation * 8))
    IN  Min(1000, base_weight + success_bonus + eval_bonus)

\* the dict move -> weight, in the order of move_frequency
calculate_move_weights(analysis) ==
    [i \in 1..Len(analysis.move_frequency) |->
        LET m == analysis.move_frequency[i].move
        IN  [move |-> m,
             weight |-> move_weight(analysis.move_frequency[i].frequency,
                                    DictGet(analysis.move_success_rate, m, 50),
                                    DictGet(analysis.move_evaluations, m, 0))]]

\* move.split("-") of a key with one dash: the part before and the part after
SplitDash(m) ==
    LET i == CHOOSE i \in 1..Len(m) : m[i] = "-"
    IN  <<SubSeq(m, 1, i - 1), SubSeq(m, i + 1, Len(m))>>

determine_piece_from_move(from_square, to_square) ==
    IF from_square \in {<<"2", "7">>, <<"2", "6">>, <<"2", "5">>} THEN "Rook"
    ELSE IF from_square \in {<<"2", "2">>, <<"8", "8">>} THEN "Bishop"
    ELSE IF from_square \in {<<"7", "7">>, <<"7", "6">>} THEN "Pawn"
    ELSE IF from_square \in {<<"6", "9">>, <<"7", "8">>} THEN "Gold"
    ELSE "Pawn"

is_promotion_move(from_square, to_square) == IntOf(to_square[2]) >= 7

\* the variation dict built for one move that is kept
Variation(analysis, i, weight) ==
    LET m == analysis.move_frequency[i].move
    IN  [from |-> SplitDash(m)[1],
         to |-> SplitDash(m)[2],
         piece_type |-> determine_piece_from_move(SplitDash(m)[1], SplitDash(m)[2]),
         is_promotion |-> is_promotion_move(SplitDash(m)[1], SplitDash(m)[2]),
         weight |-> weight,
         evaluation |-> DictGet(analysis.move_evaluations, m, 0),
         frequency |-> analysis.move_frequency[i].frequency,
         success_rate |-> DictGet(analysis.move_success_rate, m, 50)]

\* the loop over weights.items() from index i on, with no move skipped
RECURSIVE variations_with_all_moves(_, _, _)
variations_with_all_moves(analysis, weights, i) ==
    IF i > Len(weights) THEN <<>>
    ELSE <<Variation(analysis, i, weights[i].weight)>>
         \o variations_with_all_moves(analysis, weights, i + 1)

\* the loop over weights.items() from index i on: a move of weight under 200
\* is skipped
RECURSIVE variations(_, _, _)
variations(analysis, weights, i) ==
    IF i > Len(weights) THEN <<>>
    ELSE (IF weights[i].weight < 200 THEN <<>>
          ELSE <<Variation(analysis, i, weights[i].weight)>>)
         \o variations(analysis, weights, i + 1)

generate_opening_variations(analysis) ==
    variations(analysis, calculate_move_weights(analysis), 1)

\* A JSON document is held as its tree of values, each scalar in its written
\* form; the white space of indent=2 is left out.
JsonNumber(lit) == [t |-> "number", lit |-> lit]
JsonString(pieces) == [t |-> "string", lit |-> pieces]
JsonLiteral(word) == [t |-> "literal", lit |-> <<word>>]
JsonArray(items) == [t |-> "array", items |-> items]
JsonObject(members) == [t |-> "object", members |-> members]
Member(key, value) == [key |-> key, value |-> value]

\* repr of a float with two decimals, given in hundredths: 0.5, 0.58, 1.0
FloatRepr(hundredths) ==
    StrNat(hundredths \div 100) \o <<".">>
    \o (IF hundredths % 10 = 0 THEN <<DigitOf((hundredths % 100) \div 10)>>
        ELSE <<DigitOf((hundredths % 100) \div 10), DigitOf(hundredths % 10)>>)

\* json.dumps of one variation dict
dumps_variation(v) ==
    JsonObject(<< Member("from", JsonString(v.from)),
                  Member("to", JsonString(v.to)),
                  Member("piece_type", JsonString(<<v.piece_type>>)),
                  Member("is_promotion", JsonLiteral(StrLower(v.is_promotion))),
                  Member("weight", JsonNumber(Str(v.weight))),
                  Member("evaluation", JsonNumber(Str(v.evaluation))),
                  Member("frequency", JsonNumber(Str(v.frequency))),
                  Member("success_rate", JsonNumber(FloatRepr(v.success_rate))) >>)

\* an entry of positions that is made whatever the variations are
PositionsEntryAlways(fen, vs) ==
    <<Member(fen, JsonArray([j \in 1..Len(vs) |-> dumps_variation(vs[j])]))>>

\* if variations: opening_book_data["positions"][fen] = variations
PositionsEntry(fen, vs) ==
    IF vs = <<>> THEN <<>>
    ELSE <<Member(fen, JsonArray([j \in 1..Len(vs) |-> dumps_variation(vs[j])]))>>

\* the loop over analyses.items() from index k on
RECURSIVE positions_entries(_, _)
positions_entries(position_analyses, k) ==
    IF k > Len(position_analyses) THEN <<>>
    ELSE PositionsEntry(position_analyses[k].fen,
                        generate_opening_variations(position_analyses[k]))
         \o positions_entries(position_analyses, k + 1)

generate_binary_opening_book(position_analyses) ==
    JsonObject(<< Member("version", JsonNumber(Str(1))),
                  Member("positions",
                         JsonObject(positions_entries(position_analyses, 1))) >>)

\* Reading the document back.  The number a literal denotes: an int, or a
\* float in hundredths
IntValue(lit) == IF lit[1] = "-" THEN 0 - NatOf(Tail(lit)) ELSE NatOf(lit)

FloatValue(lit) ==
    LET dot == CHOOSE i \in 1..Len(lit) : lit[i] = "."
        decimals == SubSeq(lit, dot + 1, Len(lit))
    IN  NatOf(SubSeq(lit, 1, dot - 1)) * 100
        + (IF Len(decimals) = 1 THEN NatOf(decimals) * 10 ELSE NatOf(decimals))

\* the value of the member of an object that has the key
ValueOf(object, key) ==
    object.members[CHOOSE i \in 1..Len(object.members) : object.members[i].key = key].value

\* one move of the loaded catalog, from the object written for it
load_move(object) ==
    [from |-> ValueOf(object, "from").lit,
     to |-> ValueOf(object, "to").lit,
     piece_type |-> ValueOf(object, "piece_type").lit[1],
     is_promotion |-> ValueOf(object, "is_promotion").lit = <<"true">>,
     weight |-> IntValue(ValueOf(object, "weight").lit),
     evaluation |-> IntValue(ValueOf(object, "evaluation").lit),
     frequency |-> IntValue(ValueOf(object, "frequency").lit),
     success_rate |-> FloatValue(ValueOf(object, "success_rate").lit)]

\* the loaded catalog: for every key of "positions", in order, the position
\* identifier and its move list
load_positions(members) ==
    [k \in 1..Len(members) |->
        [fen |-> members[k].key,
         moves |-> [j \in 1..Len(members[k].value.items) |->
                       load_move(members[k].value.items[j])]]]

load_opening_book(document) ==
    [version |-> IntValue(ValueOf(document, "version").lit),
     positions |-> load_positions(ValueOf(document, "positions").members)]

-----------------------------------------------------------------------------
(* SpecGen: the catalog rendering applied to position analyses, the loader  *)
(* applied to what it wrote, and the source-text rendering applied to a    *)
(* catalog of converted moves.                                             *)

MaxAnalysisMoves == 2

\* what an analysis may hold for one move: the key, its frequency, and a
\* success rate and an evaluation where hasRate and hasEvaluation say so
SampleStats ==
    { [move |-> <<"2", "7", "-", "2", "6">>, frequency |-> 45,
       hasRate |-> TRUE, rate |-> 65, hasEvaluation |-> TRUE, evaluation |-> 15],
      [move |-> <<"7", "7", "-", "7", "6">>, frequency |-> 30,
       hasRate |-> TRUE, rate |-> 58, hasEvaluation |-> TRUE, evaluation |-> 8],
      [move |-> <<"2", "8", "-", "5", "8">>, frequency |-> 10,
       hasRate |-> FALSE, rate |-> 0, hasEvaluation |-> FALSE, evaluation |-> 0],
      [move |-> <<"2", "2", "-", "8", "8">>, frequency |-> 15,
       hasRate |-> TRUE, rate |-> 72, hasEvaluation |-> TRUE, evaluation |-> 25],
      [move |-> <<"6", "9", "-", "7", "8">>, frequency |-> 200,
       hasRate |-> TRUE, rate |-> 100, hasEvaluation |-> TRUE, evaluation |-> 30] }

\* the lists of at most n statistics with pairwise different move keys
StatsLists(n) ==
    UNION {{l \in [1..k -> SampleStats] :
                \A i, j \in 1..k : i # j => l[i].move # l[j].move} : k \in 0..n}

\* the PositionAnalysis that holds the statistics of a list
AnalysisOf(fen, stats) ==
    LET indices == 1..Len(stats)
    IN  PositionAnalysis(
            fen,
            [i \in indices |-> [move |-> stats[i].move, frequency |-> stats[i].frequency]],
            [m \in {stats[i].move : i \in {j \in indices : stats[j].hasRate}} |->
                (CHOOSE s \in {stats[i] : i \in indices} : s.move = m).rate],
            [m \in {stats[i].move : i \in {j \in indices : stats[j].hasEvaluation}} |->
                (CHOOSE s \in {stats[i] : i \in indices} : s.move = m).evaluation],
            1000)

\* the dicts position identifier -> PositionAnalysis of at most two positions
Analyses ==
    {<<>>}
    \cup {<<AnalysisOf(f, l)>> : f \in Fens, l \in StatsLists(MaxAnalysisMoves)}
    \cup UNION {{<<AnalysisOf(f1, l1), AnalysisOf(f2, l2)>> :
                     l1 \in StatsLists(MaxAnalysisMoves),
                     l2 \in StatsLists(MaxAnalysisMoves), f2 \in Fens \ {f1}} :
                 f1 \in Fens}

InitGen ==
    /\ self = OpeningBookConverter
    /\ returned = <<>>
    /\ \/ analyses \in Analyses /\ catalog = <<>>
       \/ analyses = <<>> /\ catalog \in Catalogs(MaxCatalogSize)
    /\ ret = NoCall
    /\ move = NoMove
    /\ opening_name = ""
    /\ data = <<>>
    /\ all_positions = <<>>
    /\ pc = "idle"
    /\ args = NoArgs
    /\ fs = NoFiles
    /\ exit_status = Running

CallGenerateBinaryOpeningBook ==
    /\ pc = "idle"
    /\ ret = NoCall
    /\ ret' = [fn |-> "generate_binary_opening_book",
               out |-> generate_binary_opening_book(analyses)]
    /\ UNCHANGED <<self, returned, move, opening_name, data, all_positions, pc>>
    /\ UNCHANGED driverVars

\* the document is written, then loaded back
CallLoadOpeningBook ==
    /\ pc = "idle"
    /\ ret = NoCall
    /\ ret' = [fn |-> "load_opening_book",
               out |-> load_opening_book(generate_binary_opening_book(analyses))]
    /\ UNCHANGED <<self, returned, move, opening_name, data, all_positions, pc>>
    /\ UNCHANGED driverVars

NextGen ==
    \/ CallGenerateBinaryOpeningBook
    \/ CallLoadOpeningBook
    \/ CallGenerateRustCode

SpecGen == InitGen /\ [][NextGen]_vars

-----------------------------------------------------------------------------
(* Properties of the catalog rendering, checked under SpecGen *)

\* the total weight of move i of an analysis: 4 per unit of frequency, 2 per
\* hundredth of success rate (0.5 when none is held; one less where the float
\* product falls short), 8 per unit of evaluation within 0..200, at most 1000
C12_TotalWeight(analysis, i) ==
    LET m == analysis.move_frequency[i].move
        s == IF m \in DOMAIN analysis.move_success_rate
             THEN analysis.move_success_rate[m] ELSE 50
        e == IF m \in DOMAIN analysis.move_evaluations
             THEN analysis.move_evaluations[m] ELSE 0
        sum == analysis.move_frequency[i].frequency * 4
               + (s * 200) \div 100 - (IF s \in {29, 57, 58} THEN 1 ELSE 0)
               + (IF e * 8 < 0 THEN 0 ELSE IF e * 8 > 200 THEN 200 ELSE e * 8)
    IN  IF sum > 1000 THEN 1000 ELSE sum

\* the moves of an analysis, by index: all of them, and those of weight >= 200
C12_AllMoves(analysis) == [i \in 1..Len(analysis.move_frequency) |-> i]

C12_KeptMoves(analysis) ==
    SelectSeq(C12_AllMoves(analysis), LAMBDA i : C12_TotalWeight(analysis, i) >= 200)

\* the document has version 1 and maps exactly the given positions, in order,
\* each to one entry per move of Moves, in order, holding the two squares of
\* the move key
C12_MapsTo(document, positions, Moves(_)) ==
    LET mapping == ValueOf(document, "positions").members
    IN  /\ ValueOf(document, "version") = JsonNumber(<<"1">>)
        /\ Len(mapping) = Len(positions)
        /\ \A k \in 1..Len(positions) :
              /\ mapping[k].key = positions[k].fen
              /\ Len(mapping[k].value.items) = Len(Moves(positions[k]))
              /\ \A j \in 1..Len(Moves(positions[k])) :
                    LET m == positions[k].move_frequency[Moves(positions[k])[j]].move
                    IN  ValueOf(mapping[k].value.items[j], "from").lit
                            \o <<"-">> \o ValueOf(mapping[k].value.items[j], "to").lit = m

RECURSIVE C13_MovesInOrder(_)
C13_MovesInOrder(positions) ==
    IF positions = <<>> THEN <<>>
    ELSE Head(positions).moves \o C13_MovesInOrder(Tail(positions))

\* what the source text writes in the move record that opens at line i
C13_Written(lines, i) ==
    [piece_type |-> lines[i + 3][2],
     is_drop |-> lines[i + 4][2] = "true",
     is_promotion |-> lines[i + 5][2] = "true",
     weight |-> NatOf(SubSeq(lines[i + 6], 2, Len(lines[i + 6]) - 1)),
     evaluation |-> NatOf(SubSeq(lines[i + 7], 2, Len(lines[i + 7]) - 1)),
     opening_name |-> lines[i + 8][2],
     move_notation |-> SubSeq(lines[i + 9], 2, Len(lines[i + 9]) - 1)]

\* what a move of the catalog holds in the same fields
C13_Held(m) ==
    [piece_type |-> m.piece_type, is_drop |-> m.is_drop,
     is_promotion |-> m.is_promotion, weight |-> m.weight,
     evaluation |-> m.evaluation, opening_name |-> m.opening_name,
     move_notation |-> m.move_notation]

\* the source text writes, record by record, what the moves of the catalog hold
C13_SourceTextCopies ==
    LET lines == SplitLines(ret.out)
        records == SelectSeq([i \in 1..Len(lines) |-> i],
                             LAMBDA i : IsMoveRecord(lines[i]))
        moves == C13_MovesInOrder(catalog)
    IN  /\ Len(records) = Len(moves)
        /\ \A n \in 1..Len(moves) : C13_Written(lines, records[n]) = C13_Held(moves[n])

\* the values an entry of the catalog rendering holds, read off the document
C13_Entry(object) ==
    [k \in {object.members[i].key : i \in 1..Len(object.members)} |->
        ValueOf(object, k).lit]

\* the piece type the catalog rendering gives a move that leaves a square
C13_PieceOfSquare(square) ==
    CASE square \in {<<"2", "7">>, <<"2", "6">>, <<"2", "5">>} -> "Rook"
      [] square \in {<<"2", "2">>, <<"8", "8">>} -> "Bishop"
      [] square \in {<<"6", "9">>, <<"7", "8">>} -> "Gold"
      [] OTHER -> "Pawn"

\* the entry written for move i of an analysis: three values are the ones the
\* analysis holds (0 and 0.5 where it holds none), the weight, the piece type
\* and the promotion flag are worked out from them and from the move key
C13_EntryOf(entry, analysis, i) ==
    LET m == analysis.move_frequency[i].move
    IN  /\ DOMAIN entry = {"from", "to", "piece_type", "is_promotion", "weight",
                           "evaluation", "frequency", "success_rate"}
        /\ IntValue(entry["frequency"]) = analysis.move_frequency[i].frequency
        /\ IntValue(entry["evaluation"]) =
               (IF m \in DOMAIN analysis.move_evaluations
                THEN analysis.move_evaluations[m] ELSE 0)
        /\ FloatValue(entry["success_rate"]) =
               (IF m \in DOMAIN analysis.move_success_rate
                THEN analysis.move_success_rate[m] ELSE 50)
        /\ IntValue(entry["weight"]) = C12_TotalWeight(analysis, i)
        /\ entry["piece_type"] = <<C13_PieceOfSquare(SubSeq(m, 1, 2))>>
        /\ entry["is_promotion"] = <<"true">> <=> m[5] \in {"7", "8", "9"}

\* every entry of the catalog rendering is the C13_EntryOf its move
C13_CatalogRenderingDerives ==
    LET mapping == ValueOf(ret.out, "positions").members
        kept == SelectSeq(analyses, LAMBDA a : C12_KeptMoves(a) # <<>>)
    IN  \A k \in 1..Len(mapping) : \A j \in 1..Len(mapping[k].value.items) :
            C13_EntryOf(C13_Entry(mapping[k].value.items[j]), kept[k],
                        C12_KeptMoves(kept[k])[j])

\* every entry of the catalog rendering holds nothing but the two squares and
\* values that the analysis holds for the move
C13_CatalogRenderingCopies ==
    LET mapping == ValueOf(ret.out, "positions").members
    IN  \A k \in 1..Len(mapping) : \A j \in 1..Len(mapping[k].value.items) :
            DOMAIN C13_Entry(mapping[k].value.items[j])
                \subseteq {"from", "to", "evaluation", "frequency", "success_rate"}

C14_SameMove(loaded, analysis, i) ==
    LET m == analysis.move_frequency[i].move
    IN  /\ loaded.from \o <<"-">> \o loaded.to = m
        /\ loaded.weight = C12_TotalWeight(analysis, i)
        /\ loaded.evaluation = (IF m \in DOMAIN analysis.move_evaluations
                                THEN analysis.move_evaluations[m] ELSE 0)
        /\ loaded.piece_type = C13_PieceOfSquare(SubSeq(m, 1, 2))

\* the loaded catalog holds exactly the given positions, in order, and for
\* each of them exactly the moves of Moves, in order
C14_LoadedIs(loaded, positions, Moves(_)) ==
    /\ Len(loaded.positions) = Len(positions)
    /\ \A k \in 1..Len(positions) :
          /\ loaded.positions[k].fen = positions[k].fen
          /\ Len(loaded.positions[k].moves) = Len(Moves(positions[k]))
          /\ \A j \in 1..Len(Moves(positions[k])) :
                C14_SameMove(loaded.positions[k].moves[j], positions[k],
                             Moves(positions[k])[j])

-----------------------------------------------------------------------------
(* More properties of the methods, checked under SpecFn *)

\* a digit square: a column digit and a row digit, both from 1 to 9
C26_IsSquare(token) ==
    /\ Len(token) = 2
    /\ token[1] \in DigitChars \ {"0"}
    /\ token[2] \in DigitChars \ {"0"}

\* the digit of the column, then the letter of the row: 1 is a, 9 is i
C26_Written(token) ==
    <<token[1],
      CASE token[2] = "1" -> "a" [] token[2] = "2" -> "b" [] token[2] = "3" -> "c"
        [] token[2] = "4" -> "d" [] token[2] = "5" -> "e" [] token[2] = "6" -> "f"
        [] token[2] = "7" -> "g" [] token[2] = "8" -> "h" [] token[2] = "9" -> "i">>

\* C26: generate_move_notation writes a digit square as its column digit and
\* the letter of its row; the notation of a move from a square to a square is
\* the from-square, the to-square and a trailing "+" exactly when the move
\* promotes; the notation of a drop is a piece letter (the first character of
\* the hint, or P), "*" and the to-square, with no "+" even when promote is set.
C26_Notation ==
    ret.fn = "generate_move_notation" =>
        /\ (C26_IsSquare(move.from_pos) /\ C26_IsSquare(move.to_pos)) =>
              /\ ret.out.ok
              /\ ret.out.value =
                     C26_Written(move.from_pos) \o C26_Written(move.to_pos)
                     \o (IF move.promote THEN <<"+">> ELSE <<>>)
        /\ (move.from_pos = drop /\ C26_IsSquare(move.to_pos)) =>
              /\ ret.out.ok
              /\ Len(ret.out.value) = 4
              /\ ret.out.value[1] =
                     (IF move.piece_type = <<>> THEN "P" ELSE move.piece_type[1])
              /\ ret.out.value[2] = "*"
              /\ SubSeq(ret.out.value, 3, 4) = C26_Written(move.to_pos)

\* the notation of a promoting drop of a gold on square 83
C26_Witness ==
    /\ ret.fn = "generate_move_notation"
    /\ move.from_pos = drop
    /\ move.promote
    /\ move.to_pos = <<"8", "3">>
    /\ ret.out.ok
    /\ ret.out.value = <<"G", "*", "8", "c">>

\* the openings assign_evaluation adds a bonus for
C28_BonusOpenings == {"Aggressive Rook", "Yagura", "Kakugawari (Bishop Exchange)"}

\* C28: determine_move_type never returns "neutral"; assign_evaluation lies in
\* [10, 55] for every move of every opening, is 10 for a positional move
\* without promotion of an opening that gets no bonus, and is 55 for a
\* promoting move of the bishop-exchange opening.
C28_EvaluationRange ==
    /\ ret.fn = "determine_move_type" => ret.out # "neutral"
    /\ ret.fn = "assign_evaluation" =>
          /\ ret.out >= 10
          /\ ret.out <= 55
          /\ (/\ determine_move_type(move, opening_name) = "positional"
              /\ opening_name \notin C28_BonusOpenings
              /\ ~move.promote) => ret.out = 10
          /\ (move.promote /\ opening_name = "Kakugawari (Bishop Exchange)")
                 => ret.out = 55
          /\ ret.out = 10 =>
                 determine_move_type(move, opening_name) = "positional"
          /\ ret.out = 55 => move.promote

\* the evaluation of a promoting move of the bishop-exchange opening
C28_Witness ==
    /\ ret.fn = "assign_evaluation"
    /\ opening_name = "Kakugawari (Bishop Exchange)"
    /\ move.promote
    /\ move.from_pos # drop
    /\ ret.out = 55

\* the evaluation of a positional move of an opening the tables do not list
C28_WitnessLow ==
    /\ ret.fn = "assign_evaluation"
    /\ opening_name = "Test Opening"
    /\ ~move.promote
    /\ ret.out = 10

\* the move of the state with another piece-type hint
C29_WithHint(h) == [move EXCEPT !.piece_type = h]

\* the letter a drop is written with under hint h
C29_Letter(h) == IF h = <<>> THEN "P" ELSE h[1]

\* what convert_move returned, against the conversion of the same move with hint h
C29_SameConversion(h, fen) ==
    LET other == convert_move(C29_WithHint(h), fen, opening_name)
    IN  /\ other.ok = ret.out.ok
        /\ ~ret.out.ok => other = ret.out
        /\ ret.out.ok =>
              /\ other.value.piece_type = ret.out.value.piece_type
              /\ other.value.weight = ret.out.value.weight
              /\ other.value.evaluation = ret.out.value.evaluation
              /\ [other.value EXCEPT !.move_notation = <<>>]
                     = [ret.out.value EXCEPT !.move_notation = <<>>]
              /\ move.from_pos # drop => other = ret.out
              /\ move.from_pos = drop =>
                    /\ ret.out.value.move_notation[1] = C29_Letter(move.piece_type)
                    /\ other.value.move_notation[1] = C29_Letter(h)
                    /\ Tail(other.value.move_notation)
                           = Tail(ret.out.value.move_notation)

\* C29: the piece-type hint of the input record never influences the resolved
\* piece type, the category, the weight or the evaluation: the same move with
\* any other hint gives equal values, and converts to a move that differs at
\* most in the piece letter of a drop notation, which is the hint's letter.
C29_HintUnused ==
    \A h \in PieceHints :
        /\ ret.fn = "determine_piece_type" =>
               \A fen \in Fens :
                   determine_piece_type(C29_WithHint(h), fen, opening_name) = ret.out
        /\ ret.fn = "determine_move_type" =>
               determine_move_type(C29_WithHint(h), opening_name) = ret.out
        /\ ret.fn = "assign_weight" =>
               assign_weight(C29_WithHint(h), opening_name) = ret.out
        /\ ret.fn = "assign_evaluation" =>
               assign_evaluation(C29_WithHint(h), opening_name) = ret.out
        /\ ret.fn = "convert_move" =>
               \A fen \in Fens : C29_SameConversion(h, fen)

\* a drop written with the letter of a gold whose resolved piece type is a pawn
C29_Witness ==
    /\ ret.fn = "convert_move"
    /\ move.from_pos = drop
    /\ move.piece_type = <<"G">>
    /\ ret.out.ok
    /\ ret.out.value.move_notation[1] = "G"
    /\ ret.out.value.piece_type = "Pawn"

-----------------------------------------------------------------------------
(* More properties of the driver, checked under SpecMain *)

\* conversion returned a catalog and every requested artifact holds its whole text
C21_Completed ==
    /\ ret.fn = "convert_json_file"
    /\ ret.out.ok
    /\ args.report => fs.report_file = File(generate_migration_report(catalog))
    /\ args.rust_code => fs.rust_file = File(generate_rust_code(catalog))

\* C21: the exit status is a function of the outcome: it is non-zero when the
\* input file is missing and when conversion or an export raised, and it is
\* zero exactly when conversion and every requested export completed; so a
\* run on a well-formed input with the report and the source text requested
\* that completes both ends with status zero.
C21_ExitStatus ==
    /\ pc # "exited" => exit_status = Running
    /\ pc = "exited" =>
          /\ exit_status \in {0, 1}
          /\ fs.input_file = "missing" => exit_status # 0
          /\ fs.input_file = "not json" => exit_status # 0
          /\ (ret.fn = "convert_json_file" /\ ~ret.out.ok) => exit_status # 0
          /\ exit_status = 0 <=> C21_Completed

\* a run with both artifacts requested that ended with status zero
C21_Witness ==
    /\ pc = "exited"
    /\ args.report
    /\ args.rust_code
    /\ Len(catalog) > 0
    /\ fs.report_file.exists
    /\ fs.rust_file.exists
    /\ exit_status = 0

\* a run whose source-text export failed after the report was written
C21_WitnessFailedExport ==
    /\ pc = "exited"
    /\ ret.fn = "convert_json_file"
    /\ ret.out.ok
    /\ fs.report_file = File(generate_migration_report(catalog))
    /\ args.rust_code
    /\ exit_status = 1

-----------------------------------------------------------------------------
(* More properties of convert_json_file, checked under Spec *)

\* a move object without its "from" or without its "to" member
C22_LacksField(move_data) ==
    "from" \notin DOMAIN move_data \/ "to" \notin DOMAIN move_data

\* the move objects of the file that was read
C22_Records ==
    UNION {UNION {{data[i].moves[k].moves[j] :
                       j \in DOMAIN data[i].moves[k].moves} :
                  k \in DOMAIN data[i].moves} :
           i \in DOMAIN data}

\* the number of move objects of the openings from i on
RECURSIVE C22_RecordCount(_)
C22_RecordCount(d) ==
    IF d = <<>> THEN 0
    ELSE ItemsSize(Head(d).moves) - Len(Head(d).moves) + C22_RecordCount(Tail(d))

\* C22: a move record that lacks its from or its to field does not make
\* conversion raise: the conversion of a file holding such a record returns,
\* and the catalog holds one move for each move record of the file.
C22_MissingFieldTolerated ==
    (pc # "loop" /\ \E r \in C22_Records : C22_LacksField(r)) =>
        /\ ret.out.ok
        /\ Len(MovesOf(ret.out.value)) = C22_RecordCount(data)

\* a letter-suffixed token: a column digit and a row letter from a to i
C23_IsAlgebraic(token) ==
    /\ Len(token) = 2
    /\ token[1] \in DigitChars \ {"0"}
    /\ token[2] \in {"a", "b", "c", "d", "e", "f", "g", "h", "i"}

\* C23: the coordinate translator supports the algebraic dialect: a
\* letter-suffixed token such as "7g" translates to a (row, col) pair in
\* [0,8]x[0,8].  convert_coordinate takes the token alone, so this is stated
\* of every call of it on a letter-suffixed token.
C23_AlgebraicTranslates ==
    (ret.fn = "convert_coordinate" /\ C23_IsAlgebraic(ret.arg)) =>
        /\ ret.out.ok
        /\ ret.out.value[1] \in 0..8
        /\ ret.out.value[2] \in 0..8

-----------------------------------------------------------------------------
(* SpecPure: calls of convert_opening, generate_rust_code and              *)
(* generate_migration_report, in any order, on one converter.  The file's  *)
(* opening records stay in data, and returned keeps every catalog a call   *)
(* of convert_opening has handed to its caller.                            *)

MaxPureCalls == 3

\* the opening records of the file: two that convert, one whose second
\* position holds a record without "to", and one without positions
PureOpeningData ==
    {[name |-> "Yagura",
      moves |-> <<Item("A", <<[from |-> <<"7", "7">>, to |-> <<"7", "6">>],
                             [from |-> drop, to |-> <<"5", "5">>,
                              pieceType |-> <<"G">>]>>)>>],
     [name |-> "Test Opening",
      moves |-> <<Item("A", <<[from |-> <<"7", "7">>, to |-> <<"7", "6">>]>>),
                  Item("B", <<[from |-> drop, to |-> <<"5", "5">>,
                               pieceType |-> <<"G">>]>>)>>],
     [name |-> "Yagura",
      moves |-> <<Item("A", <<[from |-> <<"7", "7">>, to |-> <<"7", "6">>]>>),
                  Item("B", <<[from |-> <<"2", "7">>]>>)>>],
     [name |-> "Test Opening", moves |-> <<>>]}

InitPure ==
    /\ self = OpeningBookConverter
    /\ returned = <<>>
    /\ data \in [{1, 2} -> PureOpeningData]
    /\ pc = "idle"
    /\ ret = NoCall
    /\ move = NoMove
    /\ opening_name = ""
    /\ all_positions = <<>>
    /\ catalog = <<>>
    /\ analyses = <<>>
    /\ args = NoArgs
    /\ fs = NoFiles
    /\ exit_status = Running

\* a converter that keeps count of its conversions in its weight table
CallConvertOpeningCounting ==
    /\ Len(returned) < MaxPureCalls
    /\ \E i \in DOMAIN data :
           \E positions \in {convert_opening(JsonOpening(data[i].name, data[i].moves))} :
               /\ ret' = [fn |-> "convert_opening", out |-> positions]
               /\ returned' = IF positions.ok
                              THEN Append(returned, [input |-> i,
                                                     catalog |-> positions.value])
                              ELSE returned
               /\ self' = [self EXCEPT !.opening_weights =
                              [n \in DOMAIN @ \cup {data[i].name} |->
                                   DictGet(@, n, 500) + 1]]
    /\ UNCHANGED <<move, opening_name, data, all_positions, pc>>
    /\ UNCHANGED driverVars

\* positions = converter.convert_opening(opening) on a record of the file:
\* the method assigns to locals only, and the caller keeps what it returns
CallConvertOpening ==
    /\ Len(returned) < MaxPureCalls
    /\ \E i \in DOMAIN data :
           \E positions \in {convert_opening(JsonOpening(data[i].name, data[i].moves))} :
               /\ ret' = [fn |-> "convert_opening", out |-> positions]
               /\ returned' = IF positions.ok
                              THEN Append(returned, [input |-> i,
                                                     catalog |-> positions.value])
                              ELSE returned
    /\ UNCHANGED <<self, move, opening_name, data, all_positions, pc>>
    /\ UNCHANGED driverVars

\* converter.generate_rust_code on a catalog returned earlier
CallGenerateRustCodeOfReturned ==
    /\ \E j \in DOMAIN returned :
           ret' = [fn |-> "generate_rust_code",
                   out |-> generate_rust_code(returned[j].catalog)]
    /\ UNCHANGED <<self, returned, move, opening_name, data, all_positions, pc>>
    /\ UNCHANGED driverVars

\* converter.generate_migration_report on a catalog returned earlier
CallGenerateMigrationReportOfReturned ==
    /\ \E j \in DOMAIN returned :
           ret' = [fn |-> "generate_migration_report",
                   out |-> generate_migration_report(returned[j].catalog)]
    /\ UNCHANGED <<self, returned, move, opening_name, data, all_positions, pc>>
    /\ UNCHANGED driverVars

NextPure ==
    \/ CallConvertOpening
    \/ CallGenerateRustCodeOfReturned
    \/ CallGenerateMigrationReportOfReturned

SpecPure == InitPure /\ [][NextPure]_vars

-----------------------------------------------------------------------------
(* SpecTest: the driver run on the input of test_migration.py, an opening  *)
(* named "Test Opening" with up to two positions made of the test's moves. *)

MaxTestMoves == 2

\* the three move objects of test_data
TestMoveData ==
    {[from |-> <<"2", "7">>, to |-> <<"2", "6">>],
     [from |-> <<"7", "7">>, to |-> <<"7", "6">>],
     [from |-> <<"8", "3">>, to |-> <<"8", "4">>]}

TestMoveLists == UNION {[1..k -> TestMoveData] : k \in 0..MaxTestMoves}

\* one opening with a first position, or with a first and a second position
TestData ==
    {<<[name |-> "Test Opening", moves |-> <<Item("A", l)>>]>> :
         l \in TestMoveLists}
    \cup {<<[name |-> "Test Opening", moves |-> <<Item("A", l1), Item("B", l2)>>]>> :
              l1 \in TestMoveLists, l2 \in TestMoveLists}

InitTest ==
    /\ self = OpeningBookConverter
    /\ returned = <<>>
    /\ fs \in {[NoFiles EXCEPT !.input_file = i, !.output_dir = o] :
                  i \in {"missing", "json", "not json"}, o \in {"absent", "existed"}}
    /\ data \in (IF fs.input_file = "json" THEN TestData ELSE {<<>>})
    /\ args \in [report : BOOLEAN, rust_code : BOOLEAN]
    /\ pc = "main"
    /\ catalog = <<>>
    /\ exit_status = Running
    /\ ret = NoCall
    /\ move = NoMove
    /\ opening_name = ""
    /\ all_positions = <<>>
    /\ analyses = <<>>

SpecTest == InitTest /\ [][NextMain]_vars

\* the piece types the converter knows by name
C25_PieceTypes == {piece_type_mapping[k] : k \in DOMAIN piece_type_mapping}

\* the first position of test_data alone, and test_data as the test writes it
C25_FirstPosition ==
    <<[name |-> "Test Opening",
       moves |-> <<Item("A", <<[from |-> <<"2", "7">>, to |-> <<"2", "6">>],
                              [from |-> <<"7", "7">>, to |-> <<"7", "6">>]>>)>>]>>

C25_BothPositions ==
    <<[name |-> "Test Opening",
       moves |-> <<Item("A", <<[from |-> <<"2", "7">>, to |-> <<"2", "6">>],
                              [from |-> <<"7", "7">>, to |-> <<"7", "6">>]>>),
                   Item("B", <<[from |-> <<"8", "3">>, to |-> <<"8", "4">>]>>)>>]>>

\* the report file holds a whole report with these two totals
C25_ReportShows(total_positions, total_move_count) ==
    LET lines == SplitLines(fs.report_file.text)
    IN  /\ lines[2][1] = "Total Positions: "
        /\ C15_Total(lines[2]) = total_positions
        /\ lines[3][1] = "Total Moves: "
        /\ C15_Total(lines[3]) = total_move_count

\* C25: end to end, the opening "Test Opening" whose first position holds the
\* moves 27->26 and 77->76 converts to two classified moves, each with a piece
\* type, a weight in [500, 1000] and an evaluation >= 0, and its report shows
\* Total Positions 1 and Total Moves 2; with the move 83->84 on a second
\* position the report shows Total Positions 2 and Total Moves 3.
C25_EndToEnd ==
    /\ (ret.fn = "convert_json_file" /\ fs.input_file = "json") =>
          /\ ret.out.ok
          /\ \A x \in MovesOf(ret.out.value) :
                 LET m == ret.out.value[x[1]].moves[x[2]]
                 IN  /\ m.piece_type \in C25_PieceTypes
                     /\ m.weight >= 500
                     /\ m.weight <= 1000
                     /\ m.evaluation >= 0
                     /\ m.opening_name = "Test Opening"
          /\ data = C25_FirstPosition =>
                 /\ Len(ret.out.value) = 1
                 /\ Len(ret.out.value[1].moves) = 2
          /\ data = C25_BothPositions =>
                 Cardinality(MovesOf(ret.out.value)) = 3
    /\ (pc \in {"rust_code", "exited"} /\ args.report /\ exit_status # 1
        /\ fs.report_file.exists) =>
          /\ data = C25_FirstPosition => C25_ReportShows(1, 2)
          /\ data = C25_BothPositions => C25_ReportShows(2, 3)
          /\ C25_ReportShows(Len(data[1].moves), C22_RecordCount(data))

\* the run of the test: both positions, report and source text requested
C25_Witness ==
    /\ data = C25_BothPositions
    /\ args.report
    /\ args.rust_code
    /\ pc = "exited"
    /\ exit_status = 0
    /\ C25_ReportShows(2, 3)
    /\ catalog[1].moves[1].piece_type = "Pawn"
    /\ catalog[1].moves[1].weight = 500
    /\ catalog[2].moves[1].evaluation = 10

\* the run on the first position alone
C25_WitnessFirst ==
    /\ data = C25_FirstPosition
    /\ pc = "exited"
    /\ exit_status = 0
    /\ args.report
    /\ C25_ReportShows(1, 2)

-----------------------------------------------------------------------------
(* The weights of converted catalogs, checked under SpecMain *)

\* the Low count of the report that was written to the report file
C27_LowCount == C16_Bucket(SplitLines(fs.report_file.text), "  Low (<500): ")

\* the report file holds the whole report of the converted catalog
C27_ReportWritten ==
    /\ ret.fn = "convert_json_file"
    /\ ret.out.ok
    /\ fs.report_file = File(generate_migration_report(catalog))

\* C27: every weight the converter assigns is at least 500, so the report of
\* a catalog that convert_json_file produced counts 0 moves in the Low bucket.
C27_NoLowWeight ==
    /\ (ret.fn = "convert_json_file" /\ ret.out.ok) =>
           \A x \in MovesOf(ret.out.value) :
               ret.out.value[x[1]].moves[x[2]].weight >= 500
    /\ C27_ReportWritten => C27_LowCount = 0

\* the report of a catalog with a move of weight 500, the smallest there is
C27_Witness ==
    /\ C27_ReportWritten
    /\ \E x \in MovesOf(catalog) : catalog[x[1]].moves[x[2]].weight = 500
    /\ \E x \in MovesOf(catalog) : catalog[x[1]].moves[x[2]].weight > 800
    /\ C27_LowCount = 0

====
